---------------------------- MODULE Spec2Model ----------------------------
(***************************************************************************)
(* Khronicle: the ingestion / persistence / watch-rule core of the daemon. *)
(*                                                                         *)
(* Conventions of this model                                               *)
(*  - Time points are integers, milliseconds since the epoch               *)
(*    (std::chrono::system_clock); the host's local time zone is UTC.      *)
(*  - std::optional<T> is a sequence: << >> is nullopt, <<x>> holds x.     *)
(*  - Text that the code searches or lower-cases is a sequence of          *)
(*    one-character strings; text that is only compared for equality is a  *)
(*    TLA+ string.                                                         *)
(*  - A JSON object is a function from its keys to its values; the empty   *)
(*    object is the empty function << >>.                                  *)
(*  - A table of the SQLite database is the set of its rows.               *)
(***************************************************************************)
EXTENDS Integers, Sequences, FiniteSets, TLC

\* ------------------------------------------------------------------ bounds
MaxLines == 3
MaxRotations == 1
MaxRestarts == 1
MaxCycles == 2
MaxJournal == 2
MaxCalls == 3
MaxTicks == 2
MaxRuleOps == 3
MaxUnameFailures == 1
MaxPieces == 2

\* ------------------------------------------------------- program constants
kMaxBytesPerRun == 5 * 1024 * 1024
kRulesReloadInterval == 60 * 1000
kJournalLookback == 30 * 60 * 1000
kIngestionIntervalMs == 300000
MsPerSecond == 1000
MsPerMinute == 60 * 1000
MinutesPerDay == 24 * 60

NoValue == << >>
Some(x) == <<x>>

Max(a, b) == IF a >= b THEN a ELSE b

\* --------------------------------------------------------------- text
\* std::tolower on one character.
toLowerChar(c) ==
    CASE c = "A" -> "a"
      [] c = "B" -> "b"
      [] c = "C" -> "c"
      [] c = "D" -> "d"
      [] c = "E" -> "e"
      [] c = "F" -> "f"
      [] c = "G" -> "g"
      [] c = "H" -> "h"
      [] c = "I" -> "i"
      [] c = "J" -> "j"
      [] c = "K" -> "k"
      [] c = "L" -> "l"
      [] c = "M" -> "m"
      [] c = "N" -> "n"
      [] c = "O" -> "o"
      [] c = "P" -> "p"
      [] c = "Q" -> "q"
      [] c = "R" -> "r"
      [] c = "S" -> "s"
      [] c = "T" -> "t"
      [] c = "U" -> "u"
      [] c = "V" -> "v"
      [] c = "W" -> "w"
      [] c = "X" -> "x"
      [] c = "Y" -> "y"
      [] c = "Z" -> "z"
      [] OTHER -> c

toLower(value) == [i \in 1..Len(value) |-> toLowerChar(value[i])]

\* std::string::find(needle) != npos
Find(value, needle) ==
    \E i \in 0..(Len(value) - Len(needle)) :
        \A j \in 1..Len(needle) : value[i + j] = needle[j]

sp == <<" ">>
arrow == <<" ", "-", ">", " ">>
linux == <<"l", "i", "n", "u", "x">>
mesa == <<"m", "e", "s", "a">>
vim == <<"v", "i", "m">>
fwupd == <<"f", "w", "u", "p", "d">>
amdgpu == <<"a", "m", "d", "g", "p", "u">>
nvidia == <<"n", "v", "i", "d", "i", "a">>
ucode == <<"a", "m", "d", "-", "u", "c", "o", "d", "e">>
installed == <<"i", "n", "s", "t", "a", "l", "l", "e", "d">>
upgraded == <<"u", "p", "g", "r", "a", "d", "e", "d">>
downgraded == <<"d", "o", "w", "n", "g", "r", "a", "d", "e", "d">>
ver1 == <<"1">>
ver2 == <<"2">>
ver3 == <<"3">>

\* toCategoryString
toCategoryString(category) ==
    CASE category = "Kernel" -> <<"k", "e", "r", "n", "e", "l">>
      [] category = "GpuDriver" -> <<"g", "p", "u", "_", "d", "r", "i", "v", "e", "r">>
      [] category = "Firmware" -> <<"f", "i", "r", "m", "w", "a", "r", "e">>
      [] category = "Package" -> <<"p", "a", "c", "k", "a", "g", "e">>
      [] OTHER -> <<"s", "y", "s", "t", "e", "m">>

\* ------------------------------------------------------- the package log
\* One line of pacman.log, newline included in len (bytes):
\*   "[stamp] [tag] op pkg (versions)".  stamp is the bracketed local time
\* in minutes since the epoch, or -1 for text that std::get_time rejects;
\* versions is the text between the parentheses.
Line(tag, stamp, op, pkg, versions, len) ==
    [tag |-> tag, stamp |-> stamp, op |-> op, pkg |-> pkg,
     versions |-> versions, len |-> len]

StampA == 24 * 60 + 3 * 60
StampB == 24 * 60 + 5 * 60

LineK == Line("ALPM", StampA, upgraded, linux, ver1 \o arrow \o ver2, 40)
LineK2 == Line("ALPM", StampA, upgraded, linux, ver2 \o arrow \o ver3, 40)
LineG == Line("ALPM", StampB, downgraded, mesa, ver2 \o arrow \o ver1, 41)
LineB == Line("ALPM", StampB, upgraded, vim, ver1 \o arrow \o ver2, 30)
LineM == Line("ALPM", StampA, installed, mesa, ver1, 35)
LineJB == Line("PACMAN", StampA, << >>, << >>, << >>, kMaxBytesPerRun - 1)

RECURSIVE fileSize(_)
fileSize(file) ==
    IF file = << >> THEN 0 ELSE file[1].len + fileSize(Tail(file))

lineStart(file, i) == fileSize(SubSeq(file, 1, i - 1))
lineEnd(file, i) == fileSize(SubSeq(file, 1, i))

\* parseCursor: the byte offset a cursor denotes, nullopt when absent or negative.
parseCursor(cursor) ==
    IF cursor = NoValue THEN NoValue
    ELSE IF cursor[1] < 0 THEN NoValue ELSE Some(cursor[1])

\* parseTimestamp: local "YYYY-MM-DD HH:MM" to a time point.
parseTimestamp(raw) ==
    IF raw < 0 THEN NoValue ELSE Some(raw * MsPerMinute)

\* parseLine: the four fields of a well-formed ALPM line, else nullopt.
parseLine(line) ==
    IF line.tag # "ALPM" THEN NoValue
    ELSE IF line.op \notin {installed, upgraded, downgraded} THEN NoValue
    ELSE IF line.versions = << >> THEN NoValue
    ELSE Some([timestamp |-> line.stamp, operation |-> line.op,
               packageName |-> line.pkg, versionInfo |-> line.versions])

isSpace(c) == c = " "

RECURSIVE trimLeft(_)
trimLeft(value) ==
    IF value # << >> /\ isSpace(value[1]) THEN trimLeft(Tail(value)) ELSE value

RECURSIVE trimRight(_)
trimRight(value) ==
    IF value # << >> /\ isSpace(value[Len(value)])
    THEN trimRight(SubSeq(value, 1, Len(value) - 1)) ELSE value

trim(value) == trimRight(trimLeft(value))

\* std::string::find / QString::indexOf: the 0-based position of the first
\* match, -1 when there is none.
indexOf(value, needle) ==
    LET hits == {i \in 0..(Len(value) - Len(needle)) :
                    \A j \in 1..Len(needle) : value[i + j] = needle[j]}
    IN IF hits = {} THEN -1 ELSE CHOOSE i \in hits : \A j \in hits : i <= j

findDelimiter(value) == indexOf(value, <<"-", ">">>)

\* splitVersions: <<oldVersion, newVersion>>
splitVersions(parsed) ==
    IF parsed.operation = installed THEN << << >>, trim(parsed.versionInfo) >>
    ELSE LET pos == findDelimiter(parsed.versionInfo)
         IN IF pos = -1 THEN << << >>, trim(parsed.versionInfo) >>
            ELSE << trim(SubSeq(parsed.versionInfo, 1, pos)),
                    trim(SubSeq(parsed.versionInfo, pos + 3, Len(parsed.versionInfo))) >>

buildSummary(parsed, oldVersion, newVersion) ==
    IF parsed.operation = installed
    THEN parsed.operation \o sp \o parsed.packageName \o sp \o newVersion
    ELSE IF oldVersion # << >> /\ newVersion # << >>
    THEN parsed.operation \o sp \o parsed.packageName \o sp \o oldVersion
         \o arrow \o newVersion
    ELSE parsed.operation \o sp \o parsed.packageName

\* The name tables, cut to the package names that occur in the model's logs.
categoryForPackage(packageName) ==
    IF packageName \in {linux} THEN "Kernel"
    ELSE IF packageName \in {mesa, nvidia} THEN "GpuDriver"
    ELSE IF packageName \in {ucode} THEN "Firmware"
    ELSE "Package"

isInterestingPackage(packageName) == packageName \in {linux, mesa, nvidia, ucode}

\* The KhronicleEvent that the loop body builds for one matching line.
pacmanEvent(line, parsed, timestamp) ==
    LET versions == splitVersions(parsed)
        oldVersion == versions[1]
        newVersion == versions[2]
    IN [id |-> <<"pacman", parsed.timestamp, parsed.packageName, parsed.operation>>,
        timestamp |-> timestamp,
        category |-> categoryForPackage(parsed.packageName),
        source |-> "Pacman",
        summary |-> buildSummary(parsed, oldVersion, newVersion),
        details |-> line,
        beforeState |-> IF oldVersion # << >> THEN ("version" :> oldVersion) ELSE << >>,
        afterState |-> IF newVersion # << >> THEN ("version" :> newVersion) ELSE << >>,
        relatedPackages |-> <<parsed.packageName>>,
        riskLevel |-> "info",
        riskReason |-> << >>,
        hostId |-> ""]

\* The getline loop from file position pos, where line i of the file is the
\* one that holds pos.  A read that starts inside a line yields the rest of
\* that line, which does not begin with the bracketed stamp and so fails
\* parseLine.  Result: the events, the position after the last line read,
\* and whether the loop left through one of the byte-cap breaks.
RECURSIVE readLines(_, _, _, _, _)
readLines(file, i, pos, bytesConsumed, events) ==
    IF i > Len(file)
    THEN [events |-> events, lastPos |-> pos, bytesConsumed |-> bytesConsumed,
          capped |-> FALSE]
    ELSE LET line == file[i]
             next == lineEnd(file, i)
             consumed == bytesConsumed + (next - pos)
             parsed == IF pos = lineStart(file, i) THEN parseLine(line) ELSE NoValue
             timestamp == IF parsed = NoValue THEN NoValue
                          ELSE parseTimestamp(parsed[1].timestamp)
         IN IF parsed = NoValue
            THEN IF consumed >= kMaxBytesPerRun
                 THEN [events |-> events, lastPos |-> next,
                       bytesConsumed |-> consumed, capped |-> TRUE]
                 ELSE readLines(file, i + 1, next, consumed, events)
            ELSE IF ~isInterestingPackage(parsed[1].packageName)
            THEN readLines(file, i + 1, next, consumed, events)
            ELSE IF timestamp = NoValue
            THEN readLines(file, i + 1, next, consumed, events)
            ELSE LET event == pacmanEvent(line, parsed[1], timestamp[1])
                 IN IF consumed >= kMaxBytesPerRun
                    THEN [events |-> Append(events, event), lastPos |-> next,
                          bytesConsumed |-> consumed, capped |-> TRUE]
                    ELSE readLines(file, i + 1, next, consumed, Append(events, event))

\* Seeded fault: the rotation check is left out.
seekPosition_noRotationCheck(file, previousCursor) ==
    LET cursor == parseCursor(previousCursor)
    IN IF cursor = NoValue THEN 0 ELSE cursor[1]

\* Seeded fault: the cursor is ignored and every parse reads from the start.
seekPosition_ignoreCursor(file, previousCursor) == 0

\* The position seekg(startPos) leaves the stream at, after the rotation check.
seekPosition(file, previousCursor) ==
    LET cursor == parseCursor(previousCursor)
        startPos == IF cursor = NoValue THEN 0 ELSE cursor[1]
    IN IF fileSize(file) > 0 /\ startPos > 0 /\ startPos > fileSize(file)
       THEN 0 ELSE startPos

\* Seeded fault: a failed open answers with the cursor of a new file.
openFailure_resetsCursor(previousCursor) ==
    [events |-> << >>, newCursor |-> 0, hadError |-> TRUE, startPos |-> 0,
     capped |-> FALSE]

\* The result when the file cannot be opened: previousCursor.value_or("0").
openFailure(previousCursor) ==
    [events |-> << >>,
     newCursor |-> IF previousCursor = NoValue THEN 0 ELSE previousCursor[1],
     hadError |-> TRUE, startPos |-> 0, capped |-> FALSE]

\* Seeded fault: a run that the byte cap stopped returns the end of the file.
parsePacmanLog_endOfFile(file, opens, previousCursor) ==
    IF ~opens THEN openFailure(previousCursor)
    ELSE LET startPos == seekPosition(file, previousCursor)
             first == IF \E i \in 1..Len(file) : lineEnd(file, i) > startPos
                      THEN CHOOSE i \in 1..Len(file) :
                               /\ lineEnd(file, i) > startPos
                               /\ \A j \in 1..(i - 1) : lineEnd(file, j) <= startPos
                      ELSE Len(file) + 1
             read == readLines(file, first, startPos, 0, << >>)
         IN [events |-> read.events, newCursor |-> fileSize(file), hadError |-> FALSE,
             startPos |-> startPos, capped |-> read.capped]

\* parsePacmanLog(path, previousCursor); file is the content at path and
\* opens says whether std::ifstream could open it.
parsePacmanLog(file, opens, previousCursor) ==
    IF ~opens THEN openFailure(previousCursor)
    ELSE LET startPos == seekPosition(file, previousCursor)
             first == IF \E i \in 1..Len(file) : lineEnd(file, i) > startPos
                      THEN CHOOSE i \in 1..Len(file) :
                               /\ lineEnd(file, i) > startPos
                               /\ \A j \in 1..(i - 1) : lineEnd(file, j) <= startPos
                      ELSE Len(file) + 1
             read == readLines(file, first, startPos, 0, << >>)
             endPos == IF read.capped THEN read.lastPos ELSE fileSize(file)
             cursorPos == IF read.bytesConsumed >= kMaxBytesPerRun
                          THEN read.lastPos ELSE endPos
         IN [events |-> read.events, newCursor |-> cursorPos, hadError |-> FALSE,
             startPos |-> startPos, capped |-> read.capped]

\* ------------------------------------------------------------ the journal
\* One line of `journalctl --output=short-iso`: "<stamp> <host> <process>: <message>".
\* stamp is the line's ISO time in whole seconds since the epoch, or -1 for a
\* line whose first word is no ISO time ("-- Boot ... --", "-- No entries --").
Entry(stamp, process, message) ==
    [stamp |-> stamp, process |-> process, message |-> message]

kernelProc == <<"k", "e", "r", "n", "e", "l">>
txtFirmwareUpdateInstalled == <<"f", "i", "r", "m", "w", "a", "r", "e", " ", "u", "p", "d", "a", "t", "e", " ", "i", "n", "s", "t", "a", "l", "l", "e", "d">>
txtSuccessfullyInstalledFirmware == <<"s", "u", "c", "c", "e", "s", "s", "f", "u", "l", "l", "y", " ", "i", "n", "s", "t", "a", "l", "l", "e", "d", " ", "f", "i", "r", "m", "w", "a", "r", "e">>
txtFirmware == <<"f", "i", "r", "m", "w", "a", "r", "e">>
txtVersion == <<"v", "e", "r", "s", "i", "o", "n">>
txtLoadingNvidiaDriver == <<"l", "o", "a", "d", "i", "n", "g", " ", "n", "v", "i", "d", "i", "a", " ", "d", "r", "i", "v", "e", "r">>
txtNvidiaModeset == <<"n", "v", "i", "d", "i", "a", "-", "m", "o", "d", "e", "s", "e", "t">>
txtNvrm == <<"n", "v", "r", "m">>
sumFwupd == <<"F", "i", "r", "m", "w", "a", "r", "e", " ", "u", "p", "d", "a", "t", "e", "d", " ", "v", "i", "a", " ", "f", "w", "u", "p", "d">>
sumAmd == <<"a", "m", "d", "g", "p", "u", " ", "f", "i", "r", "m", "w", "a", "r", "e", "/", "v", "e", "r", "s", "i", "o", "n", " ", "e", "v", "e", "n", "t">>
sumAmdVersion == <<"a", "m", "d", "g", "p", "u", " ", "f", "i", "r", "m", "w", "a", "r", "e", " ", "v", "e", "r", "s", "i", "o", "n", " ", "l", "o", "a", "d", "e", "d">>
sumNvidia == <<"N", "V", "I", "D", "I", "A", " ", "d", "r", "i", "v", "e", "r", " ", "v", "e", "r", "s", "i", "o", "n", " ", "l", "o", "a", "d", "e", "d">>

\* toIsoSince / toIso8601Utc: the ISO text of a time point has whole seconds;
\* the text is modelled by its count of seconds.
toIso8601Utc(timestamp) == timestamp \div MsPerSecond
toIsoSince(since) == since \div MsPerSecond

\* fromIso8601Utc: the epoch (time_point{}) stands for text that does not parse.
fromIso8601Utc(value) == IF value < 0 THEN 0 ELSE value * MsPerSecond

\* parseTimestamp of journal_parser.cpp
parseJournalTimestamp(value) ==
    IF value < 0 THEN NoValue ELSE Some(value * MsPerSecond)

messageHasGpuSignal(message) ==
    LET lower == toLower(message)
    IN Find(lower, txtFirmware) \/ Find(lower, txtVersion)
       \/ Find(lower, txtLoadingNvidiaDriver)

isVersionChar(c) ==
    c \in {"0", "1", "2", "3", "4", "5", "6", "7", "8", "9", ".", "-", "_"}

RECURSIVE skipSpaces(_, _)
skipSpaces(message, start) ==
    IF start <= Len(message) /\ isSpace(message[start])
    THEN skipSpaces(message, start + 1) ELSE start

RECURSIVE versionEnd(_, _)
versionEnd(message, end) ==
    IF end <= Len(message) /\ isVersionChar(message[end])
    THEN versionEnd(message, end + 1) ELSE end

\* extractVersionToken (1-based positions)
extractVersionToken(message) ==
    LET index == indexOf(toLower(message), txtVersion)
    IN IF index < 0 THEN << >>
       ELSE LET start == skipSpaces(message, index + Len(txtVersion) + 1)
                end == versionEnd(message, start)
            IN trim(SubSeq(message, start, end - 1))

\* The KhronicleEvent of one matching journal line.  std::hash of the line
\* is modelled by the line's process and message (no collisions).
journalEvent(line, timestamp, isFwupd, isAmd) ==
    LET lowerMessage == toLower(line.message)
        colon == indexOf(line.message, <<":">>)
        firmware == IF colon >= 0 /\ colon + 1 < Len(line.message)
                    THEN trim(SubSeq(line.message, colon + 2, Len(line.message)))
                    ELSE << >>
        version == extractVersionToken(line.message)
        iso == toIso8601Utc(timestamp)
    IN IF isFwupd
       THEN [id |-> <<"journal", iso, fwupd, line.process \o <<":">> \o line.message>>,
             timestamp |-> timestamp, category |-> "Firmware", source |-> "Journal",
             summary |-> IF Find(lowerMessage, txtFirmwareUpdateInstalled)
                         THEN line.message ELSE sumFwupd,
             details |-> line, beforeState |-> << >>,
             afterState |-> IF firmware # << >> THEN ("firmware" :> firmware) ELSE << >>,
             relatedPackages |-> <<fwupd>>, riskLevel |-> "", riskReason |-> << >>,
             hostId |-> ""]
       ELSE [id |-> <<"journal", iso, IF isAmd THEN amdgpu ELSE nvidia,
                      line.process \o <<":">> \o line.message>>,
             timestamp |-> timestamp, category |-> "GpuDriver", source |-> "Journal",
             summary |-> IF isAmd
                         THEN (IF version # << >> THEN sumAmdVersion ELSE sumAmd)
                         ELSE sumNvidia,
             details |-> line, beforeState |-> << >>,
             afterState |-> IF version # << >> THEN ("version" :> version) ELSE << >>,
             relatedPackages |-> <<IF isAmd THEN amdgpu ELSE nvidia>>,
             riskLevel |-> "", riskReason |-> << >>, hostId |-> ""]

\* parseJournalOutputLines(lines, since)
RECURSIVE parseJournalLoop(_, _)
parseJournalLoop(lines, result) ==
    IF lines = << >> THEN result
    ELSE LET line == lines[1]
             timestamp == parseJournalTimestamp(line.stamp)
             processName == toLower(line.process)
             lowerMessage == toLower(line.message)
             isFwupd == \/ Find(processName, fwupd)
                        \/ Find(lowerMessage, txtFirmwareUpdateInstalled)
                        \/ Find(lowerMessage, txtSuccessfullyInstalledFirmware)
             isAmd == Find(lowerMessage, amdgpu)
             isNvidia == \/ Find(lowerMessage, nvidia)
                         \/ Find(lowerMessage, txtNvidiaModeset)
                         \/ Find(lowerMessage, txtNvrm)
         IN IF timestamp = NoValue
            THEN parseJournalLoop(Tail(lines), result)
            ELSE IF ~isFwupd /\ ~(messageHasGpuSignal(line.message) /\ (isAmd \/ isNvidia))
            THEN parseJournalLoop(Tail(lines), result)
            ELSE parseJournalLoop(Tail(lines),
                    [events |-> Append(result.events,
                                       journalEvent(line, timestamp[1], isFwupd, isAmd)),
                     lastTimestamp |-> IF timestamp[1] > result.lastTimestamp
                                       THEN timestamp[1] ELSE result.lastTimestamp])

\* Seeded fault: the result starts from the epoch, not from since.
parseJournalOutputLines_fromEpoch(lines, since) ==
    parseJournalLoop(lines, [events |-> << >>, lastTimestamp |-> 0])

parseJournalOutputLines(lines, since) ==
    parseJournalLoop(lines, [events |-> << >>, lastTimestamp |-> since])

\* What `journalctl --since=<iso> --output=short-iso` prints: the entries at
\* or after the given second, between its own "-- ... --" lines.
journalctlOutput(entries, sinceArg) ==
    SelectSeq(entries, LAMBDA e : e.stamp < 0 \/ e.stamp >= sinceArg)

\* parseJournalSince(since); entries is the system journal and runs says
\* whether journalctl started, finished in time and exited with 0.
parseJournalSince(entries, runs, since) ==
    IF ~runs THEN [events |-> << >>, lastTimestamp |-> since]
    ELSE parseJournalOutputLines(journalctlOutput(entries, toIsoSince(since)), since)

\* ------------------------------------------------------ the risk classifier
txtCritical == <<"c", "r", "i", "t", "i", "c", "a", "l">>
txtImportant == <<"i", "m", "p", "o", "r", "t", "a", "n", "t">>
reasonKernel == <<"K", "e", "r", "n", "e", "l", " ", "v", "e", "r", "s", "i", "o", "n", " ", "c", "h", "a", "n", "g", "e", "d">>
reasonGpu == <<"G", "P", "U", " ", "d", "r", "i", "v", "e", "r", " ", "u", "p", "d", "a", "t", "e", "d">>
reasonFirmware == <<"F", "i", "r", "m", "w", "a", "r", "e", " ", "o", "r", " ", "m", "i", "c", "r", "o", "c", "o", "d", "e", " ", "u", "p", "d", "a", "t", "e", "d">>
reasonDowngrade == <<"P", "a", "c", "k", "a", "g", "e", " ", "d", "o", "w", "n", "g", "r", "a", "d", "e", "d">>

severityRank(level) ==
    IF level = "critical" THEN 2 ELSE IF level = "important" THEN 1 ELSE 0

\* updateRisk with the fault of appending the reason whatever the rank
updateRisk_appendsLowerRank(event, level, reason) ==
    LET raised == IF severityRank(level) > severityRank(event.riskLevel)
                  THEN [event EXCEPT !.riskLevel = level, !.riskReason = << >>]
                  ELSE event
        joined == IF raised.riskReason # << >>
                  THEN raised.riskReason \o sp \o reason ELSE reason
        ended == IF joined # << >> /\ joined[Len(joined)] # "."
                 THEN joined \o <<".">> ELSE joined
    IN IF reason # << >>
       THEN [raised EXCEPT !.riskReason = ended]
       ELSE raised

updateRisk(event, level, reason) ==
    LET raised == IF severityRank(level) > severityRank(event.riskLevel)
                  THEN [event EXCEPT !.riskLevel = level, !.riskReason = << >>]
                  ELSE event
        joined == IF raised.riskReason # << >>
                  THEN raised.riskReason \o sp \o reason ELSE reason
        ended == IF joined # << >> /\ joined[Len(joined)] # "."
                 THEN joined \o <<".">> ELSE joined
    IN IF severityRank(level) = severityRank(raised.riskLevel) /\ reason # << >>
       THEN [raised EXCEPT !.riskReason = ended]
       ELSE raised

\* classify with the fault of keeping the risk the event came with
classify_keepsPrior(event) ==
    LET e0 == event
        e1 == IF e0.category = "Kernel"
              THEN updateRisk(e0, "critical", reasonKernel) ELSE e0
        e2 == IF e1.category = "GpuDriver"
              THEN updateRisk(e1, "important", reasonGpu) ELSE e1
        e3 == IF e2.category = "Firmware"
              THEN updateRisk(e2, "important", reasonFirmware) ELSE e2
    IN IF Find(toLower(e3.summary), downgraded)
       THEN updateRisk(e3, "important", reasonDowngrade) ELSE e3

\* RiskClassifier::classify
classify(event) ==
    LET e0 == [event EXCEPT !.riskLevel = "info", !.riskReason = << >>]
        e1 == IF e0.category = "Kernel"
              THEN updateRisk(e0, "critical", reasonKernel) ELSE e0
        e2 == IF e1.category = "GpuDriver"
              THEN updateRisk(e1, "important", reasonGpu) ELSE e1
        e3 == IF e2.category = "Firmware"
              THEN updateRisk(e2, "important", reasonFirmware) ELSE e2
    IN IF Find(toLower(e3.summary), downgraded)
       THEN updateRisk(e3, "important", reasonDowngrade) ELSE e3

\* ---------------------------------------------------------------- the store
\* The host identity row that the first open of the database generates.
HostId == "host-1"

\* ------------------------------------------------------ the host identity
\* generateUuid() for a host: a uuid that no row of the table holds
generateHostId(table) ==
    IF HostId \notin {row.host_id : row \in table} THEN HostId ELSE "host-2"

\* The row of host_identity that the constructor inserts for an identity
hostIdentityRow(identity) ==
    [host_id |-> identity.hostId, hostname |-> identity.hostname, os |-> identity.os]

\* Seeded fault: every open generates an identity and inserts it.
KhronicleStore_regenerates(table) ==
    LET identity == [hostId |-> generateHostId(table), hostname |-> "host", os |-> "Linux"]
    IN [hostIdentity |-> identity, host_identity |-> table \cup {hostIdentityRow(identity)}]

\* KhronicleStore::KhronicleStore on a database whose host_identity table is
\* given: the identity the store holds, and the table it leaves.
KhronicleStore(table) ==
    IF table # {}
    THEN LET row == CHOOSE row \in table : TRUE
         IN [hostIdentity |-> [hostId |-> row.host_id, hostname |-> row.hostname,
                               os |-> row.os],
             host_identity |-> table]
    ELSE LET identity == [hostId |-> generateHostId(table), hostname |-> "host",
                          os |-> "Linux"]
         IN [hostIdentity |-> identity, host_identity |-> {hostIdentityRow(identity)}]

toEpochSeconds(timestamp) == timestamp \div MsPerSecond
fromEpochSeconds(value) == value * MsPerSecond

\* The row that addEvent binds for an event.
eventRow(event) ==
    [id |-> event.id, timestamp |-> toEpochSeconds(event.timestamp),
     category |-> event.category, source |-> event.source,
     summary |-> event.summary, details |-> event.details,
     before_state |-> event.beforeState, after_state |-> event.afterState,
     related_packages |-> event.relatedPackages,
     host_id |-> IF event.hostId = "" THEN HostId ELSE event.hostId]

\* Seeded fault: a plain INSERT that keeps the row already there.
addEvent_insertOnly(table, event) == table \cup {eventRow(event)}

\* INSERT OR REPLACE INTO events: the row with the same primary key goes.
addEvent(table, event) ==
    {row \in table : row.id # event.id} \cup {eventRow(event)}

snapshotRow(snapshot) ==
    [id |-> snapshot.id, timestamp |-> toEpochSeconds(snapshot.timestamp),
     kernel_version |-> snapshot.kernelVersion, gpu_driver |-> snapshot.gpuDriver,
     firmware_versions |-> snapshot.firmwareVersions,
     key_packages |-> snapshot.keyPackages,
     host_id |-> IF snapshot.hostId = "" THEN HostId ELSE snapshot.hostId]

\* INSERT OR REPLACE INTO snapshots
addSnapshot(table, snapshot) ==
    {row \in table : row.id # snapshot.id} \cup {snapshotRow(snapshot)}

\* The SystemSnapshot that listSnapshots / getSnapshot read back from a row.
snapshotFromRow(row) ==
    [id |-> row.id, timestamp |-> fromEpochSeconds(row.timestamp),
     kernelVersion |-> row.kernel_version, gpuDriver |-> row.gpu_driver,
     firmwareVersions |-> row.firmware_versions, keyPackages |-> row.key_packages,
     hostId |-> IF row.host_id = "" THEN HostId ELSE row.host_id]

listSnapshots(table) == {snapshotFromRow(row) : row \in table}

\* SELECT ... FROM snapshots WHERE id = ? LIMIT 1: the snapshot, or nullopt
getSnapshot(table, id) ==
    IF \E row \in table : row.id = id
    THEN Some(snapshotFromRow(CHOOSE row \in table : row.id = id))
    ELSE NoValue

\* std::set<std::string> iterates its keys in this order
keyOrder == <<"linux", "mesa", "vim">>

\* A nlohmann::json that may be null: json() is NoValue, a value v is Some(v)
jsonAt(object, key) == IF key \in DOMAIN object THEN Some(object[key]) ELSE NoValue

ChangedField(path, before, after) ==
    [path |-> path, before |-> before, after |-> after]

\* Seeded fault: the firmware versions are not compared.
fieldChanges_noFirmware(a, b) ==
    (IF a.kernelVersion # b.kernelVersion
     THEN <<ChangedField("kernelVersion", Some(a.kernelVersion), Some(b.kernelVersion))>>
     ELSE << >>)
    \o (IF a.gpuDriver # b.gpuDriver
        THEN <<ChangedField("gpuDriver", Some(a.gpuDriver), Some(b.gpuDriver))>>
        ELSE << >>)

\* The three fields compared one by one, in the order of the code
fieldChanges(a, b) ==
    (IF a.kernelVersion # b.kernelVersion
     THEN <<ChangedField("kernelVersion", Some(a.kernelVersion), Some(b.kernelVersion))>>
     ELSE << >>)
    \o (IF a.gpuDriver # b.gpuDriver
        THEN <<ChangedField("gpuDriver", Some(a.gpuDriver), Some(b.gpuDriver))>>
        ELSE << >>)
    \o (IF a.firmwareVersions # b.firmwareVersions
        THEN <<ChangedField("firmwareVersions", Some(a.firmwareVersions),
                            Some(b.firmwareVersions))>>
        ELSE << >>)

\* The loop over the keys: one entry for each key whose two values differ
RECURSIVE keyChanges(_, _, _, _)
keyChanges(keyPackagesA, keyPackagesB, keys, from) ==
    IF from > Len(keyOrder) THEN << >>
    ELSE LET key == keyOrder[from]
             before == jsonAt(keyPackagesA, key)
             after == jsonAt(keyPackagesB, key)
             rest == keyChanges(keyPackagesA, keyPackagesB, keys, from + 1)
         IN IF key \in keys /\ before # after
            THEN <<ChangedField("keyPackages." \o key, before, after)>> \o rest
            ELSE rest

\* diffSnapshots with the fault of walking the keys of the first snapshot only
diffSnapshots_keysOfA(table, aId, bId) ==
    LET diff == [snapshotAId |-> aId, snapshotBId |-> bId, changedFields |-> << >>]
        snapshotA == getSnapshot(table, aId)
        snapshotB == getSnapshot(table, bId)
    IN IF snapshotA = NoValue \/ snapshotB = NoValue THEN diff
       ELSE LET a == snapshotA[1]
                b == snapshotB[1]
                keys == DOMAIN a.keyPackages
            IN [diff EXCEPT !.changedFields =
                    fieldChanges(a, b) \o keyChanges(a.keyPackages, b.keyPackages, keys, 1)]

\* diffSnapshots with the fault of taking an id that is not stored for a
\* snapshot with nothing in it
diffSnapshots_unknownAsEmpty(table, aId, bId) ==
    LET diff == [snapshotAId |-> aId, snapshotBId |-> bId, changedFields |-> << >>]
        nothing == [kernelVersion |-> << >>, gpuDriver |-> << >>,
                    firmwareVersions |-> << >>, keyPackages |-> << >>]
        snapshotA == getSnapshot(table, aId)
        snapshotB == getSnapshot(table, bId)
        a == IF snapshotA = NoValue THEN nothing ELSE snapshotA[1]
        b == IF snapshotB = NoValue THEN nothing ELSE snapshotB[1]
        keys == DOMAIN a.keyPackages \cup DOMAIN b.keyPackages
    IN [diff EXCEPT !.changedFields =
            fieldChanges(a, b) \o keyChanges(a.keyPackages, b.keyPackages, keys, 1)]

\* KhronicleStore::diffSnapshots
diffSnapshots(table, aId, bId) ==
    LET diff == [snapshotAId |-> aId, snapshotBId |-> bId, changedFields |-> << >>]
        snapshotA == getSnapshot(table, aId)
        snapshotB == getSnapshot(table, bId)
    IN IF snapshotA = NoValue \/ snapshotB = NoValue THEN diff
       ELSE LET a == snapshotA[1]
                b == snapshotB[1]
                keys == DOMAIN a.keyPackages \cup DOMAIN b.keyPackages
            IN [diff EXCEPT !.changedFields =
                    fieldChanges(a, b) \o keyChanges(a.keyPackages, b.keyPackages, keys, 1)]


\* ------------------------------------------- explanations (change_explainer)
\* The text of an explanation is the sequence of the pieces streamed into it.
clauseKernel == "kernel was upgraded"
clauseGpu == "GPU driver updated"
clauseFirmware == "firmware updated"
clausePackages == "key packages changed"
textNoChange == "No significant kernel, GPU, or firmware changes were detected during this interval."
textDuring == "During this interval, the "
textMayExplain == ". These changes may explain differences in system behavior."

\* field.path.rfind("keyPackages.", 0) == 0
hasKeyPackagesPrefix(path) ==
    \E i \in 1..Len(keyOrder) : path = "keyPackages." \o keyOrder[i]

\* The loop that streams the highlights with their separators
RECURSIVE joinHighlights(_, _)
joinHighlights(highlights, i) ==
    IF i > Len(highlights) THEN << >>
    ELSE (IF i > 1 /\ i = Len(highlights) THEN <<" and ">>
          ELSE IF i > 1 THEN <<", ">> ELSE << >>)
         \o <<highlights[i]>> \o joinHighlights(highlights, i + 1)

\* Seeded fault: the intervening events are not looked at.
explainChange_diffOnly(diff, interveningEvents) ==
    LET paths == {diff.changedFields[i].path : i \in 1..Len(diff.changedFields)}
        highlights ==
            (IF "kernelVersion" \in paths THEN <<clauseKernel>> ELSE << >>)
            \o (IF "gpuDriver" \in paths THEN <<clauseGpu>> ELSE << >>)
            \o (IF "firmwareVersions" \in paths THEN <<clauseFirmware>> ELSE << >>)
            \o (IF \E path \in paths : hasKeyPackagesPrefix(path)
                THEN <<clausePackages>> ELSE << >>)
    IN IF highlights = << >> THEN <<textNoChange>>
       ELSE <<textDuring>> \o joinHighlights(highlights, 1) \o <<textMayExplain>>

explainChange(diff, interveningEvents) ==
    LET paths == {diff.changedFields[i].path : i \in 1..Len(diff.changedFields)}
        kernelChange == "kernelVersion" \in paths
        gpuChange == "gpuDriver" \in paths
        firmwareChange == "firmwareVersions" \in paths
        packageChanges ==
            Cardinality({i \in 1..Len(diff.changedFields) :
                /\ diff.changedFields[i].path \notin
                       {"kernelVersion", "gpuDriver", "firmwareVersions"}
                /\ hasKeyPackagesPrefix(diff.changedFields[i].path)})
        sawKernelEvent == \E event \in interveningEvents : event.category = "Kernel"
        sawGpuEvent == \E event \in interveningEvents : event.category = "GpuDriver"
        sawFirmwareEvent == \E event \in interveningEvents : event.category = "Firmware"
        highlights ==
            (IF kernelChange \/ sawKernelEvent THEN <<clauseKernel>> ELSE << >>)
            \o (IF gpuChange \/ sawGpuEvent THEN <<clauseGpu>> ELSE << >>)
            \o (IF firmwareChange \/ sawFirmwareEvent THEN <<clauseFirmware>> ELSE << >>)
            \o (IF packageChanges > 0 THEN <<clausePackages>> ELSE << >>)
    IN IF highlights = << >> THEN <<textNoChange>>
       ELSE <<textDuring>> \o joinHighlights(highlights, 1) \o <<textMayExplain>>

\* computeCounterfactual: the diff of the two snapshots it is given, built as
\* diffSnapshots builds it, and the explanation of that diff.
computeCounterfactual(baseline, comparison, interveningEvents) ==
    LET keys == DOMAIN baseline.keyPackages \cup DOMAIN comparison.keyPackages
        diff == [snapshotAId |-> baseline.id, snapshotBId |-> comparison.id,
                 changedFields |->
                     fieldChanges(baseline, comparison)
                     \o keyChanges(baseline.keyPackages, comparison.keyPackages, keys, 1)]
    IN [baselineSnapshotId |-> baseline.id, comparisonSnapshotId |-> comparison.id,
        diff |-> diff, explanationSummary |-> explainChange(diff, interveningEvents)]

\* static_cast<int> of the enums, and the store's switches back
watchScopeToInt(scope) == IF scope = "Snapshot" THEN 1 ELSE 0
watchScopeFromInt(value) == IF value = 1 THEN "Snapshot" ELSE "Event"
watchSeverityToInt(severity) ==
    CASE severity = "Warning" -> 1 [] severity = "Critical" -> 2 [] OTHER -> 0
watchSeverityFromInt(value) ==
    CASE value = 1 -> "Warning" [] value = 2 -> "Critical" [] OTHER -> "Info"

\* The row that upsertWatchRule binds for a rule (an empty text is bound as
\* NULL, which columnText reads as the empty text), and the rule that
\* listWatchRules reads from a row.
watchRuleRow(rule) ==
    [id |-> rule.id, name |-> rule.name, description |-> rule.description,
     scope |-> watchScopeToInt(rule.scope), severity |-> watchSeverityToInt(rule.severity),
     enabled |-> IF rule.enabled THEN 1 ELSE 0,
     category_equals |-> rule.categoryEquals,
     risk_level_at_least |-> rule.riskLevelAtLeast,
     package_name_contains |-> rule.packageNameContains,
     active_from |-> rule.activeFrom, active_to |-> rule.activeTo]
watchRuleFromRow(row) ==
    [id |-> row.id, name |-> row.name, description |-> row.description,
     scope |-> watchScopeFromInt(row.scope),
     severity |-> watchSeverityFromInt(row.severity),
     enabled |-> row.enabled # 0,
     categoryEquals |-> row.category_equals,
     riskLevelAtLeast |-> row.risk_level_at_least,
     packageNameContains |-> row.package_name_contains,
     activeFrom |-> row.active_from, activeTo |-> row.active_to]

\* Seeded fault: INSERT OR IGNORE, the stored row of an id is kept.
upsertWatchRule_insertOnly(table, rule) ==
    IF \E row \in table : row.id = rule.id THEN table
    ELSE table \cup {watchRuleFromRow(watchRuleRow(rule))}

\* INSERT OR REPLACE INTO watch_rules.  The table holds each row as
\* listWatchRules reads it.
upsertWatchRule(table, rule) ==
    {row \in table : row.id # rule.id} \cup {watchRuleFromRow(watchRuleRow(rule))}

\* DELETE FROM watch_rules WHERE id = ?
deleteWatchRule(table, id) == {row \in table : row.id # id}

\* SELECT ... FROM watch_rules (the ORDER BY name is not modelled: the rules
\* are evaluated independently of each other).
listWatchRules(table) == table

\* ---------------------------------------------------- reads of the store
eventFromRow(row) ==
    [id |-> row.id, timestamp |-> fromEpochSeconds(row.timestamp),
     category |-> row.category, source |-> row.source, summary |-> row.summary,
     details |-> row.details, beforeState |-> row.before_state,
     afterState |-> row.after_state, relatedPackages |-> row.related_packages,
     hostId |-> IF row.host_id = "" THEN HostId ELSE row.host_id]

\* SELECT ... FROM events WHERE timestamp >= ? (the ORDER BY is not modelled)
getEventsSince(table, since) ==
    {eventFromRow(row) : row \in {r \in table : r.timestamp >= toEpochSeconds(since)}}

\* SELECT ... FROM events WHERE timestamp >= ? AND timestamp <= ?
getEventsBetween(table, from, to) ==
    {eventFromRow(row) :
        row \in {r \in table : /\ r.timestamp >= toEpochSeconds(from)
                               /\ r.timestamp <= toEpochSeconds(to)}}

\* SELECT ... FROM watch_signals WHERE timestamp >= ?
getWatchSignalsSince(table, since) ==
    {row \in table : row.timestamp >= toEpochSeconds(since)}

\* Seeded fault: ORDER BY timestamp ASC in getSnapshotBefore.
getSnapshotBefore_ascending(table, t) ==
    LET rows == {r \in table : r.timestamp <= toEpochSeconds(t)}
    IN IF rows = {} THEN NoValue
       ELSE Some(snapshotFromRow(CHOOSE r \in rows :
                                     \A other \in rows : other.timestamp >= r.timestamp))

\* SELECT ... WHERE timestamp <= ? ORDER BY timestamp DESC LIMIT 1
getSnapshotBefore(table, t) ==
    LET rows == {r \in table : r.timestamp <= toEpochSeconds(t)}
    IN IF rows = {} THEN NoValue
       ELSE Some(snapshotFromRow(CHOOSE r \in rows :
                                     \A other \in rows : other.timestamp <= r.timestamp))

\* SELECT ... WHERE timestamp >= ? ORDER BY timestamp ASC LIMIT 1
getSnapshotAfter(table, t) ==
    LET rows == {r \in table : r.timestamp >= toEpochSeconds(t)}
    IN IF rows = {} THEN NoValue
       ELSE Some(snapshotFromRow(CHOOSE r \in rows :
                                     \A other \in rows : other.timestamp >= r.timestamp))

\* std::max_element over the listed snapshots, by timestamp
latestSnapshot(listed) ==
    IF listed = {} THEN NoValue
    ELSE Some(CHOOSE s \in listed : \A other \in listed : other.timestamp <= s.timestamp)

\* ------------------------------------------------------- the API server
\* A nlohmann::json value of a request: its type and what it holds.  An
\* object holds a function from its keys to values.
JsonString(value) == [type |-> "string", value |-> value]
\* number_integer_t has 64 bits: high * 2^32 + value, value the low word
JsonInteger(value) == [type |-> "integer", value |-> value, high |-> 0]
JsonWide(high, value) == [type |-> "integer", value |-> value, high |-> high]
JsonObject(value) == [type |-> "object", value |-> value]
\* An array of the one element it holds
JsonArray(value) == [type |-> "array", value |-> value]
Discarded == [type |-> "discarded", value |-> << >>]

\* The bytes of a payload: units from..to of the text of a JSON value that is
\* MaxPieces units long.  json::parse gives the value for the whole text and
\* is_discarded() for a part of it.
Bytes(json, from, to) == [json |-> json, from |-> from, to |-> to]
parse(payload) ==
    IF payload.from = 1 /\ payload.to = MaxPieces THEN payload.json ELSE Discarded

\* get<int>() of a number_integer_t: static_cast<int> keeps the low word
toInt(json) == json.value

\* params.value(key, ""): the string under the key, "" for a missing key;
\* a value that is not a string throws type_error 302
paramValue(params, key, default) ==
    IF key \in DOMAIN params THEN params[key].value ELSE default
paramThrows(params, key) == key \in DOMAIN params /\ params[key].type # "string"
whatTypeError == "[json.exception.type_error.302] type must be string"
whatPrepare == "sqlite prepare failed"
NoText == -1

makeErrorResponse(message, id) == [error |-> message, id |-> id]
makeResultResponse(value, id) == [result |-> value, id |-> id]

\* Seeded fault: a request that fails empties the rules table.
Reply_clearsRules(response, rules) ==
    [written |-> <<response>>, disconnected |-> TRUE,
     watchRules |-> IF "error" \in DOMAIN response THEN {} ELSE rules]

\* What one run of handleRequest does: the responses written to the socket,
\* whether it disconnects, and the watch_rules table it leaves.
Reply(response, rules) ==
    [written |-> <<response>>, disconnected |-> TRUE, watchRules |-> rules]

\* The branches of handleRequest after the params are read.  A store call
\* throws when its statement cannot be prepared (storageFails).
dispatch(store, method, params, id, storageFails) ==
    LET Error(message) == Reply(makeErrorResponse(message, id), store.watchRules)
        Result(value) == Reply(makeResultResponse(value, id), store.watchRules)
        Thrown(what) == Reply(makeErrorResponse(what, id), store.watchRules)
        Stored(value) == IF storageFails THEN Thrown(whatPrepare) ELSE Result(value)
        since == fromIso8601Utc(paramValue(params, "since", NoText))
        from == fromIso8601Utc(paramValue(params, "from", NoText))
        to == fromIso8601Utc(paramValue(params, "to", NoText))
        explained(baseline, comparison) ==
            LET resultData ==
                    computeCounterfactual(baseline, comparison,
                        getEventsBetween(store.events, baseline.timestamp,
                                         comparison.timestamp))
            IN [baselineSnapshot |-> resultData.baselineSnapshotId,
                comparisonSnapshot |-> resultData.comparisonSnapshotId,
                summary |-> resultData.explanationSummary, diff |-> resultData.diff]
    IN CASE method = "get_changes_since" ->
              IF paramThrows(params, "since") THEN Thrown(whatTypeError)
              ELSE IF since = 0 THEN Error("Invalid since timestamp")
              ELSE Stored([events |-> getEventsSince(store.events, since)])
         [] method = "get_changes_between" ->
              IF paramThrows(params, "from") \/ paramThrows(params, "to")
              THEN Thrown(whatTypeError)
              ELSE IF from = 0 \/ to = 0 THEN Error("Invalid from/to timestamp")
              ELSE Stored([events |-> getEventsBetween(store.events, from, to)])
         [] method = "list_snapshots" ->
              Stored([snapshots |-> listSnapshots(store.snapshots)])
         [] method = "get_snapshot" ->
              IF paramThrows(params, "id") THEN Thrown(whatTypeError)
              ELSE IF paramValue(params, "id", << >>) = << >>
              THEN Error("Missing snapshot id")
              ELSE IF storageFails THEN Thrown(whatPrepare)
              ELSE IF getSnapshot(store.snapshots, params["id"].value) = NoValue
              THEN Error("Snapshot not found")
              ELSE Result([snapshot |-> getSnapshot(store.snapshots, params["id"].value)[1]])
         [] method = "diff_snapshots" ->
              IF paramThrows(params, "a") \/ paramThrows(params, "b")
              THEN Thrown(whatTypeError)
              ELSE IF \/ paramValue(params, "a", << >>) = << >>
                      \/ paramValue(params, "b", << >>) = << >>
              THEN Error("Missing snapshot ids")
              ELSE Stored([diff |-> diffSnapshots(store.snapshots, params["a"].value,
                                                  params["b"].value)])
         [] method = "summary_since" ->
              IF paramThrows(params, "since") THEN Thrown(whatTypeError)
              ELSE IF since = 0 THEN Error("Invalid since timestamp")
              ELSE LET found == getEventsSince(store.events, since)
                   IN Stored([kernelChanged |-> \E e \in found : e.category = "Kernel",
                              gpuEvents |-> Cardinality({e \in found : e.category = "GpuDriver"}),
                              firmwareEvents |-> Cardinality({e \in found : e.category = "Firmware"}),
                              totalEvents |-> Cardinality(found)])
         [] method = "list_watch_rules" ->
              Stored([rules |-> listWatchRules(store.watchRules)])
         [] method = "upsert_watch_rule" ->
              IF "rule" \notin DOMAIN params \/ params["rule"].type # "object"
              THEN Error("Missing rule object")
              ELSE IF params["rule"].value.id = "" THEN Error("Missing rule id")
              ELSE IF storageFails THEN Thrown(whatPrepare)
              ELSE Reply(makeResultResponse([ok |-> TRUE], id),
                         upsertWatchRule(store.watchRules, params["rule"].value))
         [] method = "delete_watch_rule" ->
              IF paramThrows(params, "id") THEN Thrown(whatTypeError)
              ELSE IF paramValue(params, "id", "") = "" THEN Error("Missing rule id")
              ELSE IF storageFails THEN Thrown(whatPrepare)
              ELSE Reply(makeResultResponse([ok |-> TRUE], id),
                         deleteWatchRule(store.watchRules, params["id"].value))
         [] method = "get_watch_signals_since" ->
              IF paramThrows(params, "since") THEN Thrown(whatTypeError)
              ELSE IF since = 0 THEN Error("Invalid since timestamp")
              ELSE Stored([signals |-> getWatchSignalsSince(store.watchSignals, since)])
         [] method = "explain_change_between" ->
              IF paramThrows(params, "from") \/ paramThrows(params, "to")
              THEN Thrown(whatTypeError)
              ELSE IF from = 0 \/ to = 0 THEN Error("Invalid from/to timestamp")
              ELSE IF storageFails THEN Thrown(whatPrepare)
              ELSE LET baseline == getSnapshotBefore(store.snapshots, from)
                       comparison == getSnapshotAfter(store.snapshots, to)
                   IN IF baseline = NoValue \/ comparison = NoValue
                      THEN Error("Snapshots not found")
                      ELSE LET resultData ==
                                   computeCounterfactual(baseline[1], comparison[1],
                                       getEventsBetween(store.events, from, to))
                           IN Result([baselineSnapshot |-> resultData.baselineSnapshotId,
                                      comparisonSnapshot |-> resultData.comparisonSnapshotId,
                                      summary |-> resultData.explanationSummary,
                                      diff |-> resultData.diff])
         [] method = "what_changed_since_last_good" ->
              IF paramThrows(params, "referenceSnapshotId") THEN Thrown(whatTypeError)
              ELSE IF paramValue(params, "referenceSnapshotId", << >>) = << >>
              THEN Error("Missing referenceSnapshotId")
              ELSE IF storageFails THEN Thrown(whatPrepare)
              ELSE LET baseline == getSnapshot(store.snapshots,
                                               params["referenceSnapshotId"].value)
                       latest == latestSnapshot(listSnapshots(store.snapshots))
                   IN IF baseline = NoValue \/ latest = NoValue
                      THEN Error("Snapshots not found")
                      ELSE Result(explained(baseline[1], latest[1]))
         [] OTHER -> Error("Unknown method")

\* KhronicleApiServer::handleRequest(socket, payload) on the store as it is
handleRequest(store, payload, storageFails) ==
    LET parsed == parse(payload)
        object == parsed.value
        id == IF "id" \in DOMAIN object /\ object["id"].type = "integer"
              THEN toInt(object["id"]) ELSE -1
    IN IF parsed.type # "object"
       THEN Reply(makeErrorResponse("Invalid JSON payload", -1), store.watchRules)
       ELSE IF "method" \notin DOMAIN object \/ object["method"].type # "string"
       THEN Reply(makeErrorResponse("Missing method", id), store.watchRules)
       ELSE IF "params" \in DOMAIN object /\ object["params"].type # "object"
       THEN Reply(makeErrorResponse("Invalid params", id), store.watchRules)
       ELSE dispatch(store, object["method"].value,
                     IF "params" \in DOMAIN object THEN object["params"].value ELSE << >>,
                     id, storageFails)

\* handleRequest, method diff_snapshots: what is written to the socket
diff_snapshots(table, aId, bId, id) ==
    IF aId = << >> \/ bId = << >>
    THEN makeErrorResponse("Missing snapshot ids", id)
    ELSE makeResultResponse([diff |-> diffSnapshots(table, aId, bId)], id)

\* The row that addWatchSignal binds for a signal (INSERT OR REPLACE INTO
\* watch_signals; the ids are new, so rows are only ever added).
signalRow(signal) ==
    [id |-> signal.id, timestamp |-> toEpochSeconds(signal.timestamp),
     rule_id |-> signal.ruleId, rule_name |-> signal.ruleName,
     severity |-> signal.severity, origin_type |-> signal.originType,
     origin_id |-> signal.originId, message |-> signal.message]

\* getMeta / setMeta on the meta table, a function from the stored keys.
getMeta(table, key) ==
    IF key \in DOMAIN table THEN Some(table[key]) ELSE NoValue

setMeta(table, key, value) ==
    [k \in DOMAIN table \cup {key} |-> IF k = key THEN value ELSE table[k]]

\* --------------------------------------------------------- the watch engine
txtRiskLevel == "riskLevel"
txtGpu == <<"g", "p", "u">>

riskRank(risk) ==
    LET lowered == toLower(risk)
    IN IF lowered = txtCritical THEN 2 ELSE IF lowered = txtImportant THEN 1 ELSE 0

\* extractRiskLevel: the string under "riskLevel" of a JSON object, else empty.
extractRiskLevel(state) ==
    IF txtRiskLevel \in DOMAIN state THEN state[txtRiskLevel] ELSE << >>

eventRiskLevel(event) ==
    LET risk == extractRiskLevel(event.afterState)
    IN IF risk = << >> THEN extractRiskLevel(event.beforeState) ELSE risk

containsCaseInsensitive(value, needle) ==
    IF needle = << >> THEN TRUE ELSE Find(toLower(value), toLower(needle))

listContainsSubstring(values, needle) ==
    IF needle = << >> THEN TRUE
    ELSE \E i \in 1..Len(values) : containsCaseInsensitive(values[i], needle)

\* Keys of the model's JSON objects are TLA+ strings; keyText gives their text.
keyText(key) ==
    CASE key = "linux" -> linux [] key = "mesa" -> mesa
      [] key = "riskLevel" -> <<"r", "i", "s", "k", "L", "e", "v", "e", "l">> [] OTHER -> << >>

jsonKeysContainSubstring(obj, needle) ==
    IF needle = << >> THEN TRUE
    ELSE \E key \in DOMAIN obj :
            \/ containsCaseInsensitive(keyText(key), needle)
            \/ containsCaseInsensitive(obj[key], needle)

isDigit(c) == c \in {"0", "1", "2", "3", "4", "5", "6", "7", "8", "9"}
digitValue(c) ==
    CASE c = "0" -> 0 [] c = "1" -> 1 [] c = "2" -> 2 [] c = "3" -> 3 [] c = "4" -> 4
      [] c = "5" -> 5 [] c = "6" -> 6 [] c = "7" -> 7 [] c = "8" -> 8 [] OTHER -> 9

\* std::stoi on a two-character text: leading white space, an optional sign,
\* then the digits up to the first other character; nullopt when it throws.
stoi(text) ==
    LET body == trimLeft(text)
        signed == body # << >> /\ body[1] \in {"+", "-"}
        digits == IF signed THEN Tail(body) ELSE body
        sign == IF signed /\ body[1] = "-" THEN -1 ELSE 1
    IN IF digits = << >> \/ ~isDigit(digits[1]) THEN NoValue
       ELSE IF Len(digits) >= 2 /\ isDigit(digits[2])
       THEN Some(sign * (10 * digitValue(digits[1]) + digitValue(digits[2])))
       ELSE Some(sign * digitValue(digits[1]))

\* The parseTime lambda: minutes after midnight of "HH:MM", nullopt if rejected.
parseTime(value) ==
    IF Len(value) # 5 THEN NoValue
    ELSE IF value[3] # ":" THEN NoValue
    ELSE LET hours == stoi(SubSeq(value, 1, 2))
             minutes == stoi(SubSeq(value, 4, 5))
         IN IF hours = NoValue \/ minutes = NoValue THEN NoValue
            ELSE IF hours[1] < 0 \/ hours[1] > 23 \/ minutes[1] < 0 \/ minutes[1] > 59
            THEN NoValue
            ELSE Some(hours[1] * 60 + minutes[1])

\* localtime_r: minutes after local midnight of a time point.
localMinutes(t) == (t \div MsPerMinute) % MinutesPerDay

\* Seeded fault: the gate passes inside the window instead of outside it.
withinActiveWindow_insideFires(rule, t) ==
    IF rule.activeFrom = << >> \/ rule.activeTo = << >> THEN TRUE
    ELSE LET startMinutes == parseTime(rule.activeFrom)
             endMinutes == parseTime(rule.activeTo)
             currentMinutes == localMinutes(t)
         IN IF startMinutes = NoValue \/ endMinutes = NoValue THEN TRUE
            ELSE IF startMinutes[1] <= endMinutes[1]
            THEN currentMinutes >= startMinutes[1] /\ currentMinutes < endMinutes[1]
            ELSE currentMinutes >= startMinutes[1] \/ currentMinutes < endMinutes[1]

withinActiveWindow(rule, t) ==
    IF rule.activeFrom = << >> \/ rule.activeTo = << >> THEN TRUE
    ELSE LET startMinutes == parseTime(rule.activeFrom)
             endMinutes == parseTime(rule.activeTo)
             currentMinutes == localMinutes(t)
         IN IF startMinutes = NoValue \/ endMinutes = NoValue THEN TRUE
            ELSE IF startMinutes[1] <= endMinutes[1]
            THEN ~(currentMinutes >= startMinutes[1] /\ currentMinutes < endMinutes[1])
            ELSE ~(currentMinutes >= startMinutes[1] \/ currentMinutes < endMinutes[1])

ruleMatchesEvent(rule, event) ==
    IF ~withinActiveWindow(rule, event.timestamp) THEN FALSE
    ELSE IF /\ rule.categoryEquals # << >>
            /\ toLower(rule.categoryEquals) # toLower(toCategoryString(event.category))
    THEN FALSE
    ELSE IF /\ rule.riskLevelAtLeast # << >>
            /\ riskRank(eventRiskLevel(event)) < riskRank(rule.riskLevelAtLeast)
    THEN FALSE
    ELSE IF /\ rule.packageNameContains # << >>
            /\ ~listContainsSubstring(event.relatedPackages, rule.packageNameContains)
    THEN FALSE
    ELSE TRUE

snapshotCategoryMatches(expected, snapshot) ==
    IF expected = toCategoryString("Kernel") THEN snapshot.kernelVersion # << >>
    ELSE IF expected = toCategoryString("GpuDriver") \/ expected = txtGpu
    THEN snapshot.gpuDriver # << >>
    ELSE IF expected = toCategoryString("Firmware") THEN snapshot.firmwareVersions # << >>
    ELSE IF expected = toCategoryString("Package") THEN snapshot.keyPackages # << >>
    ELSE IF expected = toCategoryString("System") THEN TRUE
    ELSE FALSE

ruleMatchesSnapshot(rule, snapshot) ==
    IF ~withinActiveWindow(rule, snapshot.timestamp) THEN FALSE
    ELSE IF /\ rule.categoryEquals # << >>
            /\ ~snapshotCategoryMatches(toLower(rule.categoryEquals), snapshot)
    THEN FALSE
    ELSE IF /\ rule.riskLevelAtLeast # << >>
            /\ riskRank(extractRiskLevel(snapshot.keyPackages))
                 < riskRank(rule.riskLevelAtLeast)
    THEN FALSE
    ELSE IF /\ rule.packageNameContains # << >>
            /\ ~jsonKeysContainSubstring(snapshot.keyPackages, rule.packageNameContains)
    THEN FALSE
    ELSE TRUE

\* generateUuid: a fresh id.  The signals table only grows, so the number of
\* its rows before an evaluation, paired with the rule, is a fresh id.
generateUuid(signals, rule) == <<Cardinality(signals), rule.id>>

\* Seeded fault: the loop does not skip disabled rules.
eventSignals_ignoreEnabled(signals, cache, event) ==
    {[id |-> generateUuid(signals, rule), timestamp |-> event.timestamp,
      ruleId |-> rule.id, ruleName |-> rule.name, severity |-> rule.severity,
      originType |-> "event", originId |-> event.id,
      message |-> <<rule.name, "matched event", rule.categoryEquals>>] :
        rule \in {r \in cache : r.scope = "Event" /\ ruleMatchesEvent(r, event)}}

\* The WatchSignal records that one evaluateEvent builds from the rules cache.
eventSignals(signals, cache, event) ==
    {[id |-> generateUuid(signals, rule), timestamp |-> event.timestamp,
      ruleId |-> rule.id, ruleName |-> rule.name, severity |-> rule.severity,
      originType |-> "event", originId |-> event.id,
      message |-> <<rule.name, "matched event", rule.categoryEquals>>] :
        rule \in {r \in cache : r.enabled /\ r.scope = "Event" /\ ruleMatchesEvent(r, event)}}

snapshotSignals(signals, cache, snapshot) ==
    {[id |-> generateUuid(signals, rule), timestamp |-> snapshot.timestamp,
      ruleId |-> rule.id, ruleName |-> rule.name, severity |-> rule.severity,
      originType |-> "snapshot", originId |-> snapshot.id,
      message |-> <<rule.name, "matched snapshot", rule.categoryEquals>>] :
        rule \in {r \in cache : r.enabled /\ r.scope = "Snapshot"
                                 /\ ruleMatchesSnapshot(r, snapshot)}}

\* maybeReloadRules: the cache and the reload time after the call.
maybeReloadRules(cache, lastReload, rules, clock) ==
    IF cache # {} /\ clock - lastReload < kRulesReloadInterval
    THEN [cache |-> cache, lastReload |-> lastReload]
    ELSE [cache |-> listWatchRules(rules), lastReload |-> clock]

\* Whether a call of maybeReloadRules gets past its early return and queries
\* the store.
queriesStore(cache, lastReload, clock) ==
    ~(cache # {} /\ clock - lastReload < kRulesReloadInterval)

\* evaluateEvent / evaluateSnapshot: the engine's cache and the signals table
\* after one evaluation.
evaluateEvent(engine, rules, signals, clock, event) ==
    LET loaded == maybeReloadRules(engine.cache, engine.lastReload, rules, clock)
    IN [engine |-> loaded,
        signals |-> signals \cup
            {signalRow(sig) : sig \in eventSignals(signals, loaded.cache, event)}]

evaluateSnapshot(engine, rules, signals, clock, snapshot) ==
    LET loaded == maybeReloadRules(engine.cache, engine.lastReload, rules, clock)
    IN [engine |-> loaded,
        signals |-> signals \cup
            {signalRow(sig) : sig \in snapshotSignals(signals, loaded.cache, snapshot)}]

\* ------------------------------------------------------ the snapshot builder
\* What `pacman -Q <pkg>` answers for the packages buildCurrentSnapshot asks for.
installedPackages == ("linux" :> ver2) @@ ("mesa" :> ver1)

\* buildCurrentSnapshot at time clock, when `uname -r` prints unameOutput.
buildCurrentSnapshot(clock, unameOutput) ==
    [id |-> <<"snapshot", clock, << >>, << >>>>, timestamp |-> clock,
     kernelVersion |-> unameOutput, gpuDriver |-> << >>, firmwareVersions |-> << >>,
     keyPackages |-> installedPackages, hostId |-> ""]

detectKernelPackage(snapshot) ==
    LET names == DOMAIN snapshot.keyPackages
    IN CASE "linux-cachyos" \in names -> linux \o <<"-", "c", "a", "c", "h", "y", "o", "s">>
         [] "linux" \in names -> linux
         [] "linux-zen" \in names -> linux \o <<"-", "z", "e", "n">>
         [] "linux-lts" \in names -> linux \o <<"-", "l", "t", "s">>
         [] OTHER -> linux

\* ---------------------------------------------------------------- the daemon
\* The daemon is first constructed at 06:00:00.500 of day 1.
StartTime == (24 * 60 + 6 * 60) * MsPerMinute + 500

defaultJournalStart(clock) == clock - kJournalLookback

isoToTimePoint(iso, clock) ==
    LET parsed == fromIso8601Utc(iso)
    IN IF parsed = 0 THEN defaultJournalStart(clock) ELSE parsed

timePointToIso(timestamp) == toIso8601Utc(timestamp)

\* Seeded fault: the event's before and after states are exchanged.
kernelChangeEvent_swapped(last, current) ==
    [id |-> <<"kernel-change", current.timestamp, << >>, << >>>>,
     timestamp |-> current.timestamp, category |-> "Kernel", source |-> "Uname",
     summary |-> last.kernelVersion \o arrow \o current.kernelVersion,
     details |-> <<last.kernelVersion, current.kernelVersion>>,
     beforeState |-> ("kernelVersion" :> current.kernelVersion),
     afterState |-> ("kernelVersion" :> last.kernelVersion),
     relatedPackages |-> <<detectKernelPackage(current)>>,
     riskLevel |-> "", riskReason |-> << >>, hostId |-> HostId]

\* The kernel-change event of runSnapshotCheck.
kernelChangeEvent(last, current) ==
    [id |-> <<"kernel-change", current.timestamp, << >>, << >>>>,
     timestamp |-> current.timestamp, category |-> "Kernel", source |-> "Uname",
     summary |-> last.kernelVersion \o arrow \o current.kernelVersion,
     details |-> <<last.kernelVersion, current.kernelVersion>>,
     beforeState |-> ("kernelVersion" :> last.kernelVersion),
     afterState |-> ("kernelVersion" :> current.kernelVersion),
     relatedPackages |-> <<detectKernelPackage(current)>>,
     riskLevel |-> "", riskReason |-> << >>, hostId |-> HostId]

VARIABLES
    log,                    \* /var/log/pacman.log: its lines
    logOpens,               \* whether the file can be opened for reading
    journal,                \* the system journal: its entries
    journalRuns,            \* whether journalctl runs to a zero exit
    kernel,                 \* what `uname -r` prints
    now,                    \* system_clock::now()
    events,                 \* table events
    snapshots,              \* table snapshots
    meta,                   \* table meta
    watchRules,             \* table watch_rules
    watchSignals,           \* table watch_signals
    m_pacmanCursor,         \* KhronicleDaemon::m_pacmanCursor
    m_journalLastTimestamp, \* KhronicleDaemon::m_journalLastTimestamp
    m_lastSnapshot,         \* KhronicleDaemon::m_lastSnapshot
    m_watchEngine,          \* WatchEngine::m_rulesCache and m_lastRulesReload
    pc,                     \* where runIngestionCycle stands
    pending,                \* the parsed events the ingestion loop has not reached
    result,                 \* the parse result the current step works from
    lastParse,              \* history: the last parsePacmanLog call
    lastJournal,            \* history: the last parseJournalSince call
    lastEval,               \* history: the last evaluateEvent / evaluateSnapshot
    lastAdd,                \* history: the last addEvent / addSnapshot
    h_read,                 \* history: bytes of the present file already read
    h_fresh,                \* history: nothing changed since the last parse
    h_cycle,                \* history: the cycle in progress or just finished
    callArgs,               \* the arguments of the last call of a function called alone
    callValue,              \* what that call returned
    count                   \* how often each bounded step was taken

fileVars == <<log, logOpens, h_read, h_fresh>>
worldVars == <<journal, journalRuns, kernel, now>>
tableVars == <<events, snapshots, meta, watchRules, watchSignals>>
daemonVars == <<m_pacmanCursor, m_journalLastTimestamp, m_lastSnapshot, m_watchEngine,
                pc, pending, result>>
historyVars == <<lastParse, lastJournal, lastEval, lastAdd, h_cycle>>
callVars == <<callArgs, callValue>>
vars == <<fileVars, worldVars, tableVars, daemonVars, historyVars, count, callVars>>

NoParse ==
    [called |-> FALSE, previousCursor |-> NoValue, size |-> 0, readBefore |-> 0,
     fresh |-> FALSE, prevCapped |-> FALSE, events |-> << >>, newCursor |-> 0,
     hadError |-> FALSE, startPos |-> 0, capped |-> FALSE, fromStart |-> << >>,
     fromStartCursor |-> 0]
NoJournal ==
    [called |-> FALSE, since |-> 0, events |-> << >>, lastTimestamp |-> 0,
     before |-> 0]
NoEval ==
    [called |-> FALSE, kind |-> "", artifact |-> << >>, cache |-> {}, before |-> {}]
NoAdd == [called |-> FALSE, kind |-> "", item |-> << >>, before |-> {}]
NoCycle ==
    [done |-> FALSE, openFailed |-> FALSE, cursor |-> NoValue, persisted |-> NoValue,
     firstStart |-> StartTime, start |-> 0, pacmanFailures |-> 0,
     journalFailures |-> 0]
NoCount ==
    [cycles |-> 0, restarts |-> 0, rotations |-> 0, calls |-> 0, ticks |-> 0,
     ruleOps |-> 0, kernels |-> 0]

\* The state after KhronicleDaemon's constructor ran on a new database.
InitDaemon ==
    /\ events = {} /\ snapshots = {} /\ meta = << >>
    /\ watchRules = {} /\ watchSignals = {}
    /\ m_pacmanCursor = NoValue
    /\ m_journalLastTimestamp = defaultJournalStart(now)
    /\ m_lastSnapshot = NoValue
    /\ m_watchEngine = [cache |-> {}, lastReload |-> 0]
    /\ pc = "idle" /\ pending = << >>
    /\ result = [newCursor |-> 0, lastTimestamp |-> 0]
    /\ lastParse = NoParse /\ lastJournal = NoJournal /\ lastEval = NoEval
    /\ lastAdd = NoAdd /\ h_cycle = NoCycle /\ count = NoCount

InitWorld ==
    /\ log = << >> /\ logOpens = TRUE /\ h_read = 0 /\ h_fresh = FALSE
    /\ journal = << >> /\ journalRuns = TRUE
    /\ kernel = ver1 /\ now = StartTime
    /\ callArgs = << >> /\ callValue = << >>

\* What the history keeps of one parsePacmanLog call.
ParseRecord(previousCursor, parsed) ==
    LET fromStart == parsePacmanLog(log, logOpens, NoValue)
    IN [called |-> TRUE, previousCursor |-> previousCursor, size |-> fileSize(log),
        readBefore |-> h_read, fresh |-> h_fresh, prevCapped |-> lastParse.capped,
        events |-> parsed.events, newCursor |-> parsed.newCursor,
        hadError |-> parsed.hadError, startPos |-> parsed.startPos,
        capped |-> parsed.capped, fromStart |-> fromStart.events,
        fromStartCursor |-> fromStart.newCursor]

\* runPacmanIngestion, first statement: the parse from the held cursor.
PacmanParse ==
    /\ pc = "idle"
    /\ count.cycles < MaxCycles
    /\ LET parsed == parsePacmanLog(log, logOpens, m_pacmanCursor)
       IN /\ pending' = parsed.events
          /\ result' = [result EXCEPT !.newCursor = parsed.newCursor]
          /\ lastParse' = ParseRecord(m_pacmanCursor, parsed)
          /\ h_read' = IF parsed.hadError THEN h_read ELSE Max(h_read, parsed.newCursor)
    /\ h_fresh' = TRUE
    /\ pc' = "pacman"
    /\ h_cycle' = [h_cycle EXCEPT !.done = FALSE, !.openFailed = ~logOpens,
                                  !.start = now,
                                  !.pacmanFailures = IF logOpens THEN 0 ELSE @ + 1,
                                  !.cursor = m_pacmanCursor,
                                  !.persisted = getMeta(meta, "pacman_last_cursor")]
    /\ count' = [count EXCEPT !.cycles = @ + 1]
    /\ UNCHANGED callVars
    /\ UNCHANGED <<log, logOpens, worldVars, tableVars, m_pacmanCursor,
                   m_journalLastTimestamp, m_lastSnapshot, m_watchEngine,
                   lastJournal, lastEval, lastAdd>>

\* The body of the loop over the parsed events, in runPacmanIngestion and in
\* runJournalIngestion: addEvent, then evaluateEvent.
IngestEvent ==
    /\ pc \in {"pacman", "journal"}
    /\ pending # << >>
    /\ LET event == [Head(pending) EXCEPT !.hostId = HostId]
           evaluated == evaluateEvent(m_watchEngine, watchRules, watchSignals, now, event)
       IN /\ events' = addEvent(events, event)
          /\ m_watchEngine' = evaluated.engine
          /\ watchSignals' = evaluated.signals
          /\ lastEval' = [called |-> TRUE, kind |-> "event", artifact |-> event,
                          cache |-> evaluated.engine.cache, before |-> watchSignals]
          /\ lastAdd' = [called |-> TRUE, kind |-> "event", item |-> event,
                         before |-> events]
    /\ pending' = Tail(pending)
    /\ UNCHANGED callVars
    /\ UNCHANGED <<fileVars, worldVars, snapshots, meta, watchRules, m_pacmanCursor,
                   m_journalLastTimestamp, m_lastSnapshot, pc, result, lastParse,
                   lastJournal, h_cycle, count>>

\* runPacmanIngestion, after the loop: the cursor moves to the parse's.
PacmanDone ==
    /\ pc = "pacman"
    /\ pending = << >>
    /\ m_pacmanCursor' = Some(result.newCursor)
    /\ pc' = "journalStart"
    /\ UNCHANGED callVars
    /\ UNCHANGED <<fileVars, worldVars, tableVars, m_journalLastTimestamp,
                   m_lastSnapshot, m_watchEngine, pending, result, historyVars, count>>

\* runJournalIngestion, first statement: parseJournalSince from the watermark.
JournalParse ==
    /\ pc = "journalStart"
    /\ LET parsed == parseJournalSince(journal, journalRuns, m_journalLastTimestamp)
       IN /\ pending' = parsed.events
          /\ result' = [result EXCEPT !.lastTimestamp = parsed.lastTimestamp]
          /\ lastJournal' = [called |-> TRUE, since |-> m_journalLastTimestamp,
                             events |-> parsed.events,
                             lastTimestamp |-> parsed.lastTimestamp,
                             before |-> m_journalLastTimestamp]
    /\ pc' = "journal"
    /\ h_cycle' = [h_cycle EXCEPT !.journalFailures = IF journalRuns THEN 0 ELSE @ + 1]
    /\ UNCHANGED callVars
    /\ UNCHANGED <<fileVars, worldVars, tableVars, m_pacmanCursor,
                   m_journalLastTimestamp, m_lastSnapshot, m_watchEngine,
                   lastParse, lastEval, lastAdd, count>>

\* runJournalIngestion, after the loop: the watermark only moves forward.
JournalDone ==
    /\ pc = "journal"
    /\ pending = << >>
    /\ m_journalLastTimestamp' = IF result.lastTimestamp > m_journalLastTimestamp
                                 THEN result.lastTimestamp ELSE m_journalLastTimestamp
    /\ pc' = "snapshot"
    /\ UNCHANGED callVars
    /\ UNCHANGED <<fileVars, worldVars, tableVars, m_pacmanCursor, m_lastSnapshot,
                   m_watchEngine, pending, result, historyVars, count>>

\* runSnapshotCheck
SnapshotCheck ==
    /\ pc = "snapshot"
    /\ LET current == [buildCurrentSnapshot(now, kernel) EXCEPT !.hostId = HostId]
           onSnapshot == evaluateSnapshot(m_watchEngine, watchRules, watchSignals,
                                          now, current)
           event == IF m_lastSnapshot = NoValue THEN << >>
                    ELSE kernelChangeEvent(m_lastSnapshot[1], current)
           onEvent == evaluateEvent(onSnapshot.engine, watchRules, onSnapshot.signals,
                                    now, event)
       IN IF m_lastSnapshot = NoValue
          THEN /\ snapshots' = addSnapshot(snapshots, current)
               /\ m_watchEngine' = onSnapshot.engine
               /\ watchSignals' = onSnapshot.signals
               /\ m_lastSnapshot' = Some(current)
               /\ lastEval' = [called |-> TRUE, kind |-> "snapshot",
                               artifact |-> current,
                               cache |-> onSnapshot.engine.cache,
                               before |-> watchSignals]
               /\ lastAdd' = [called |-> TRUE, kind |-> "snapshot", item |-> current,
                              before |-> snapshots]
               /\ UNCHANGED events
          ELSE IF m_lastSnapshot[1].kernelVersion = current.kernelVersion
          THEN UNCHANGED <<events, snapshots, watchSignals, m_lastSnapshot,
                           m_watchEngine, lastEval, lastAdd>>
          ELSE /\ snapshots' = addSnapshot(snapshots, current)
               /\ events' = addEvent(events, event)
               /\ m_watchEngine' = onEvent.engine
               /\ watchSignals' = onEvent.signals
               /\ m_lastSnapshot' = Some(current)
               /\ lastEval' = [called |-> TRUE, kind |-> "event", artifact |-> event,
                               cache |-> onEvent.engine.cache,
                               before |-> onSnapshot.signals]
               /\ lastAdd' = [called |-> TRUE, kind |-> "event", item |-> event,
                              before |-> events]
    /\ pc' = "persist"
    /\ UNCHANGED callVars
    /\ UNCHANGED <<fileVars, worldVars, meta, watchRules, m_pacmanCursor,
                   m_journalLastTimestamp, pending, result, lastParse, lastJournal,
                   h_cycle, count>>

\* persistStateToMeta, first statement: the cursor, if there is one.
PersistCursor ==
    /\ pc = "persist"
    /\ meta' = IF m_pacmanCursor # NoValue
               THEN setMeta(meta, "pacman_last_cursor", m_pacmanCursor[1]) ELSE meta
    /\ pc' = "persistJournal"
    /\ UNCHANGED callVars
    /\ UNCHANGED <<fileVars, worldVars, events, snapshots, watchRules, watchSignals,
                   m_pacmanCursor, m_journalLastTimestamp, m_lastSnapshot,
                   m_watchEngine, pending, result, historyVars, count>>

\* persistStateToMeta, second statement; the cycle ends.
PersistJournal ==
    /\ pc = "persistJournal"
    /\ meta' = setMeta(meta, "journal_last_timestamp",
                       timePointToIso(m_journalLastTimestamp))
    /\ pc' = "idle"
    /\ h_cycle' = [h_cycle EXCEPT !.done = TRUE, !.start = 0]
    /\ UNCHANGED callVars
    /\ UNCHANGED <<fileVars, worldVars, events, snapshots, watchRules, watchSignals,
                   m_pacmanCursor, m_journalLastTimestamp, m_lastSnapshot,
                   m_watchEngine, pending, result, lastParse, lastJournal, lastEval,
                   lastAdd, count>>

\* loadLastSnapshotFromStore: a stored snapshot of the greatest timestamp.
latestSnapshots(table) ==
    {s \in listSnapshots(table) :
        \A other \in listSnapshots(table) : other.timestamp <= s.timestamp}

\* The process ends wherever it stands (stop, kill, power loss) and a new one
\* is constructed on the same database: loadStateFromMeta and
\* loadLastSnapshotFromStore run on top of the constructor's defaults.
Restart ==
    /\ count.restarts < MaxRestarts
    /\ m_pacmanCursor' = getMeta(meta, "pacman_last_cursor")
    /\ m_journalLastTimestamp' =
           IF getMeta(meta, "journal_last_timestamp") = NoValue
           THEN defaultJournalStart(now)
           ELSE isoToTimePoint(meta["journal_last_timestamp"], now)
    /\ IF snapshots = {} THEN m_lastSnapshot' = NoValue
       ELSE \E latest \in latestSnapshots(snapshots) : m_lastSnapshot' = Some(latest)
    /\ m_watchEngine' = [cache |-> {}, lastReload |-> 0]
    /\ pc' = "idle"
    /\ pending' = << >>
    /\ h_fresh' = FALSE
    /\ h_cycle' = [h_cycle EXCEPT !.done = FALSE, !.start = 0, !.pacmanFailures = 0,
                                  !.journalFailures = 0]
    /\ count' = [count EXCEPT !.restarts = @ + 1]
    /\ UNCHANGED callVars
    /\ UNCHANGED <<log, logOpens, h_read, worldVars, tableVars, result, lastParse,
                   lastJournal, lastEval, lastAdd>>

\* ------------------------------------------------------------ the environment
\* The package manager appends one complete line.  The file is read only by
\* the parse, so an append during a cycle is an append before the next one.
AppendLine(line) ==
    /\ pc = "idle"
    /\ Len(log) < MaxLines
    /\ log' = Append(log, line)
    /\ h_fresh' = FALSE
    /\ UNCHANGED callVars
    /\ UNCHANGED <<logOpens, h_read, worldVars, tableVars, daemonVars, historyVars,
                   count>>

\* Log rotation: a new file takes the path, and has this first line by the
\* time it is read.
RotateLog(line) ==
    /\ pc = "idle"
    /\ count.rotations < MaxRotations
    /\ log' = <<line>>
    /\ h_read' = 0
    /\ h_fresh' = FALSE
    /\ count' = [count EXCEPT !.rotations = @ + 1]
    /\ UNCHANGED callVars
    /\ UNCHANGED <<logOpens, worldVars, tableVars, daemonVars, historyVars>>

\* The file is truncated to nothing (copytruncate).
TruncateLog ==
    /\ pc = "idle"
    /\ count.rotations < MaxRotations
    /\ log # << >>
    /\ log' = << >>
    /\ h_read' = 0
    /\ h_fresh' = FALSE
    /\ count' = [count EXCEPT !.rotations = @ + 1]
    /\ UNCHANGED callVars
    /\ UNCHANGED <<logOpens, worldVars, tableVars, daemonVars, historyVars>>

\* The file becomes unreadable (removed, permissions), or readable again.
SetLogOpens ==
    /\ pc = "idle"
    /\ logOpens' = ~logOpens
    /\ h_fresh' = FALSE
    /\ UNCHANGED callVars
    /\ UNCHANGED <<log, h_read, worldVars, tableVars, daemonVars, historyVars, count>>

\* The journal gets a line, stamped with the present second unless it is one
\* of journalctl's own "-- ... --" lines.
AppendJournal(entry) ==
    /\ pc = "idle"
    /\ Len(journal) < MaxJournal
    /\ journal' = Append(journal, IF entry.stamp < 0 THEN entry
                                  ELSE [entry EXCEPT !.stamp = toIso8601Utc(now)])
    /\ UNCHANGED callVars
    /\ UNCHANGED <<fileVars, journalRuns, kernel, now, tableVars, daemonVars,
                   historyVars, count>>

\* journalctl stops working (missing, timing out, non-zero exit), or works again.
SetJournalRuns ==
    /\ pc = "idle"
    /\ journalRuns' = ~journalRuns
    /\ UNCHANGED callVars
    /\ UNCHANGED <<fileVars, journal, kernel, now, tableVars, daemonVars, historyVars,
                   count>>

\* The machine boots into another kernel.
KernelUpdate ==
    /\ pc = "idle"
    /\ kernel = ver1
    /\ kernel' = ver2
    /\ UNCHANGED callVars
    /\ UNCHANGED <<fileVars, journal, journalRuns, now, tableVars, daemonVars,
                   historyVars, count>>

\* `uname -r` stops working: it cannot start, times out or exits nonzero, and
\* buildCurrentSnapshot keeps kernelVersion empty.
UnameFails ==
    /\ pc = "idle"
    /\ kernel # << >>
    /\ count.kernels < MaxUnameFailures
    /\ kernel' = << >>
    /\ count' = [count EXCEPT !.kernels = @ + 1]
    /\ UNCHANGED callVars
    /\ UNCHANGED <<fileVars, journal, journalRuns, now, tableVars, daemonVars,
                   historyVars>>

\* `uname -r` works again and prints the version of the running kernel.
UnameRecovers ==
    /\ pc = "idle"
    /\ kernel = << >>
    /\ kernel' \in {ver1, ver2}
    /\ UNCHANGED callVars
    /\ UNCHANGED <<fileVars, journal, journalRuns, now, tableVars, daemonVars,
                   historyVars, count>>

\* Time passes.
Tick(d) ==
    /\ count.ticks < MaxTicks
    /\ now' = now + d
    /\ count' = [count EXCEPT !.ticks = @ + 1]
    /\ UNCHANGED callVars
    /\ UNCHANGED <<fileVars, journal, journalRuns, kernel, tableVars, daemonVars,
                   historyVars>>

\* KhronicleApiServer::handleRequest, methods upsert_watch_rule and
\* delete_watch_rule.  The server lives on the daemon's thread: a request is
\* handled between cycles, never inside one.
upsert_watch_rule(rule) ==
    /\ pc = "idle"
    /\ count.ruleOps < MaxRuleOps
    /\ rule.id # ""
    /\ watchRules' = upsertWatchRule(watchRules, rule)
    /\ count' = [count EXCEPT !.ruleOps = @ + 1]
    /\ UNCHANGED callVars
    /\ UNCHANGED <<fileVars, worldVars, events, snapshots, meta, watchSignals,
                   daemonVars, historyVars>>

delete_watch_rule(ruleId) ==
    /\ pc = "idle"
    /\ count.ruleOps < MaxRuleOps
    /\ ruleId # ""
    /\ watchRules' = deleteWatchRule(watchRules, ruleId)
    /\ count' = [count EXCEPT !.ruleOps = @ + 1]
    /\ UNCHANGED callVars
    /\ UNCHANGED <<fileVars, worldVars, events, snapshots, meta, watchSignals,
                   daemonVars, historyVars>>

\* ------------------------------------------------------- calls from outside
\* A caller that chains parsePacmanLog: each call gets the cursor the last
\* one returned (tests/test_pacman_parser.cpp).
ParseCall ==
    /\ LET parsed == parsePacmanLog(log, logOpens, m_pacmanCursor)
       IN /\ m_pacmanCursor' = Some(parsed.newCursor)
          /\ lastParse' = ParseRecord(m_pacmanCursor, parsed)
          /\ h_read' = IF parsed.hadError THEN h_read ELSE Max(h_read, parsed.newCursor)
    /\ h_fresh' = TRUE
    /\ UNCHANGED callVars
    /\ UNCHANGED <<log, logOpens, worldVars, tableVars, m_journalLastTimestamp,
                   m_lastSnapshot, m_watchEngine, pc, pending, result, lastJournal,
                   lastEval, lastAdd, h_cycle, count>>

AddEventCall(event) ==
    /\ count.calls < MaxCalls
    /\ events' = addEvent(events, event)
    /\ lastAdd' = [called |-> TRUE, kind |-> "event", item |-> event, before |-> events]
    /\ count' = [count EXCEPT !.calls = @ + 1]
    /\ UNCHANGED callVars
    /\ UNCHANGED <<fileVars, worldVars, snapshots, meta, watchRules, watchSignals,
                   daemonVars, lastParse, lastJournal, lastEval, h_cycle>>

AddSnapshotCall(snapshot) ==
    /\ count.calls < MaxCalls
    /\ snapshots' = addSnapshot(snapshots, snapshot)
    /\ lastAdd' = [called |-> TRUE, kind |-> "snapshot", item |-> snapshot,
                   before |-> snapshots]
    /\ count' = [count EXCEPT !.calls = @ + 1]
    /\ UNCHANGED callVars
    /\ UNCHANGED <<fileVars, worldVars, events, meta, watchRules, watchSignals,
                   daemonVars, lastParse, lastJournal, lastEval, h_cycle>>

EvaluateEventCall(event) ==
    /\ count.calls < MaxCalls
    /\ LET evaluated == evaluateEvent(m_watchEngine, watchRules, watchSignals, now, event)
       IN /\ m_watchEngine' = evaluated.engine
          /\ watchSignals' = evaluated.signals
          /\ lastEval' = [called |-> TRUE, kind |-> "event", artifact |-> event,
                          cache |-> evaluated.engine.cache, before |-> watchSignals]
    /\ count' = [count EXCEPT !.calls = @ + 1]
    /\ UNCHANGED callVars
    /\ UNCHANGED <<fileVars, worldVars, events, snapshots, meta, watchRules,
                   m_pacmanCursor, m_journalLastTimestamp, m_lastSnapshot, pc, pending,
                   result, lastParse, lastJournal, lastAdd, h_cycle>>

EvaluateSnapshotCall(snapshot) ==
    /\ count.calls < MaxCalls
    /\ LET evaluated == evaluateSnapshot(m_watchEngine, watchRules, watchSignals, now,
                                         snapshot)
       IN /\ m_watchEngine' = evaluated.engine
          /\ watchSignals' = evaluated.signals
          /\ lastEval' = [called |-> TRUE, kind |-> "snapshot", artifact |-> snapshot,
                          cache |-> evaluated.engine.cache, before |-> watchSignals]
    /\ count' = [count EXCEPT !.calls = @ + 1]
    /\ UNCHANGED callVars
    /\ UNCHANGED <<fileVars, worldVars, events, snapshots, meta, watchRules,
                   m_pacmanCursor, m_journalLastTimestamp, m_lastSnapshot, pc, pending,
                   result, lastParse, lastJournal, lastAdd, h_cycle>>

\* --------------------------------------------------- the parser, called alone
ParserLines == {LineK, LineG, LineB, LineJB}

InitParser == InitWorld /\ InitDaemon

NextParser ==
    \/ \E line \in ParserLines : AppendLine(line)
    \/ \E line \in ParserLines : RotateLog(line)
    \/ TruncateLog
    \/ ParseCall

SpecParser == InitParser /\ [][NextParser]_vars

\* The byte offset a cursor stands for.
OffsetOf(cursor) == IF parseCursor(cursor) = NoValue THEN 0 ELSE parseCursor(cursor)[1]

\* C3: in a chain of parsePacmanLog calls, each fed the cursor the one before
\* returned, the returned cursor is never below the one given, unless the one
\* given lies beyond the end of the file as it now is; the call then reads the
\* file from offset 0: it returns what a call without a cursor returns.
C3_CursorNeverDecreasesUnlessFileShrank ==
    lastParse.called =>
        IF OffsetOf(lastParse.previousCursor) > lastParse.size
        THEN /\ lastParse.events = lastParse.fromStart
             /\ lastParse.newCursor = lastParse.fromStartCursor
        ELSE lastParse.newCursor >= OffsetOf(lastParse.previousCursor)

\* C3 happens: a call was given a cursor beyond the end of a rotated file that
\* has a matching line, and a call on a grown file moved the cursor forward.
C3_Witness ==
    /\ lastParse.called
    /\ OffsetOf(lastParse.previousCursor) > lastParse.size
    /\ lastParse.events # << >>
    /\ lastParse.newCursor < OffsetOf(lastParse.previousCursor)

\* C4: over every sequence of appends, rotations and truncations the parser
\* skips no unread content: no parse starts reading beyond the bytes of the
\* present file that earlier parses have read.
C4_NeverSkipsUnreadContent ==
    (lastParse.called /\ ~lastParse.hadError) =>
        ~(lastParse.readBefore < lastParse.startPos
          /\ lastParse.readBefore < lastParse.size)

\* C5, as stated: parsing an unchanged file again with the cursor the parse
\* before returned yields no events and the same cursor.
C5_ReparseYieldsNothing ==
    (lastParse.called /\ lastParse.fresh) =>
        /\ lastParse.events = << >>
        /\ Some(lastParse.newCursor) = lastParse.previousCursor

\* C5, amended: parsing an unchanged file again with the cursor returned by a
\* parse that the per-run byte cap did not stop yields no events and the same
\* cursor.
C5_ReparseAfterUncappedYieldsNothing ==
    (lastParse.called /\ lastParse.fresh /\ ~lastParse.prevCapped) =>
        /\ lastParse.events = << >>
        /\ Some(lastParse.newCursor) = lastParse.previousCursor

\* C5 happens: a file with a matching line was parsed to its end and parsed
\* again, unchanged, from the returned cursor.
C5_Witness ==
    /\ lastParse.called /\ lastParse.fresh /\ ~lastParse.prevCapped
    /\ lastParse.fromStart # << >>
    /\ OffsetOf(lastParse.previousCursor) = lastParse.size

\* --------------------------------------------------- the store, called alone
\* The event parsePacmanLog makes of a file that holds just this line.
eventOfLine(line) == parsePacmanLog(<<line>>, TRUE, NoValue).events[1]

\* Events as the parsers hand them over; the second has the id of the first
\* and other values, the last names another host.
StoreEvents ==
    {eventOfLine(LineK), eventOfLine(LineK2), eventOfLine(LineG),
     [eventOfLine(LineG) EXCEPT !.hostId = "host-2"]}

\* Snapshots: two taken in the same millisecond that differ in the kernel
\* (one id), and a later one.
StoreSnapshots ==
    {buildCurrentSnapshot(StartTime, ver1), buildCurrentSnapshot(StartTime, ver2),
     buildCurrentSnapshot(StartTime + MsPerMinute, ver2)}

InitStore == InitWorld /\ InitDaemon

NextStore ==
    \/ \E event \in StoreEvents : AddEventCall(event)
    \/ \E snapshot \in StoreSnapshots : AddSnapshotCall(snapshot)

SpecStore == InitStore /\ [][NextStore]_vars

Rule(id, scope, severity, enabled, categoryEquals, riskLevelAtLeast, packageNameContains, activeFrom, activeTo) ==
    [id |-> id, name |-> id, description |-> "", scope |-> scope,
     severity |-> severity, enabled |-> enabled, categoryEquals |-> categoryEquals,
     riskLevelAtLeast |-> riskLevelAtLeast,
     packageNameContains |-> packageNameContains,
     activeFrom |-> activeFrom, activeTo |-> activeTo]

\* An event rule whose only predicate is riskLevelAtLeast = "critical".
RuleCritical ==
    Rule("r-critical", "Event", "Critical", TRUE, << >>, txtCritical, << >>, << >>, << >>)
\* Event rules on the category, enabled and disabled under one id.
RuleKernel ==
    Rule("r-kernel", "Event", "Warning", TRUE, <<"K", "e", "r", "n", "e", "l">>, << >>, << >>, << >>, << >>)
RuleKernelOff ==
    Rule("r-kernel", "Event", "Warning", FALSE, <<"K", "e", "r", "n", "e", "l">>, << >>, << >>, << >>, << >>)
\* An event rule on the package name, with a window from 02:00 to 04:00.
RuleMesa ==
    Rule("r-mesa", "Event", "Info", TRUE, << >>, << >>, <<"M", "E", "S", "A">>, <<"0", "2", ":", "0", "0">>, <<"0", "4", ":", "0", "0">>)
\* A snapshot rule on the key packages.
RuleSnapshot ==
    Rule("r-snapshot", "Snapshot", "Info", TRUE, <<"p", "a", "c", "k", "a", "g", "e">>, << >>, linux, << >>, << >>)

EngineRules == {RuleCritical, RuleKernel, RuleKernelOff, RuleMesa, RuleSnapshot}

\* Events as a caller may hand them to the engine: parsed lines, and a kernel
\* event that carries "riskLevel" in its after-state
\* (tests/test_watch_engine.cpp).
EngineEvents ==
    {eventOfLine(LineK), eventOfLine(LineG), eventOfLine(LineM),
     [eventOfLine(LineK2) EXCEPT !.afterState = ("riskLevel" :> txtCritical)]}

EngineSnapshots == {buildCurrentSnapshot(StartTime, ver1)}

\* The rules table holds any of the rules, one per id.
InitEngine ==
    /\ InitWorld
    /\ \E rules \in SUBSET EngineRules :
          /\ \A a, b \in rules : a.id = b.id => a = b
          /\ watchRules = rules
    /\ events = {} /\ snapshots = {} /\ meta = << >> /\ watchSignals = {}
    /\ m_pacmanCursor = NoValue
    /\ m_journalLastTimestamp = defaultJournalStart(now)
    /\ m_lastSnapshot = NoValue
    /\ m_watchEngine = [cache |-> {}, lastReload |-> 0]
    /\ pc = "idle" /\ pending = << >>
    /\ result = [newCursor |-> 0, lastTimestamp |-> 0]
    /\ lastParse = NoParse /\ lastJournal = NoJournal /\ lastEval = NoEval
    /\ lastAdd = NoAdd /\ h_cycle = NoCycle /\ count = NoCount

NextEngine ==
    \/ \E event \in EngineEvents : EvaluateEventCall(event)
    \/ \E snapshot \in EngineSnapshots : EvaluateSnapshotCall(snapshot)
    \/ \E rule \in EngineRules : delete_watch_rule(rule.id)
    \/ Tick(kRulesReloadInterval)

SpecEngine == InitEngine /\ [][NextEngine]_vars

\* The rows one evaluation added to watch_signals.
NewSignals == watchSignals \ lastEval.before

\* Whether a cached rule is to fire on the artifact of the last evaluation.
Fires(rule) ==
    /\ rule.enabled
    /\ IF lastEval.kind = "event"
       THEN rule.scope = "Event" /\ ruleMatchesEvent(rule, lastEval.artifact)
       ELSE rule.scope = "Snapshot" /\ ruleMatchesSnapshot(rule, lastEval.artifact)

\* C10: one evaluation writes exactly one signal for each cached rule that is
\* enabled, of the artifact's scope and passes the four checks (window,
\* category, risk level, package name), and none for any other rule; the
\* signal carries the rule's id, name and severity, the origin type, and the
\* id and the timestamp of the artifact.
C10_OneSignalPerMatchingRule ==
    lastEval.called =>
        /\ \A rule \in lastEval.cache :
              Cardinality({s \in NewSignals : s.rule_id = rule.id})
                 = IF Fires(rule) THEN 1 ELSE 0
        /\ \A s \in NewSignals :
              \E rule \in lastEval.cache :
                 /\ s.rule_id = rule.id
                 /\ s.rule_name = rule.name
                 /\ s.severity = rule.severity
                 /\ s.origin_type = lastEval.kind
                 /\ s.origin_id = lastEval.artifact.id
                 /\ s.timestamp = toEpochSeconds(lastEval.artifact.timestamp)

\* C10 happens: one evaluation of an event wrote a signal for one cached rule
\* and none for a cached rule that is disabled, for one of the other scope
\* and for one that fails a check.
C10_Witness ==
    /\ lastEval.called /\ lastEval.kind = "event"
    /\ \E s \in NewSignals : s.rule_id = RuleMesa.id
    /\ RuleKernelOff \in lastEval.cache
    /\ RuleSnapshot \in lastEval.cache
    /\ RuleCritical \in lastEval.cache
    /\ \A s \in NewSignals : s.rule_id = RuleMesa.id

\* ------------------------------------ the daemon on a growing package log
\* The second that holds the daemon's first start.
JournalBase == StartTime \div MsPerSecond

\* A journal line of fwupd, written 25 minutes before the daemon first started.
EntryEarlier == Entry(JournalBase - 25 * 60, fwupd, txtFirmwareUpdateInstalled)

IngestLines == {LineK, LineJB}

InitIngest ==
    /\ log = << >> /\ logOpens = TRUE /\ h_read = 0 /\ h_fresh = FALSE
    /\ journal = <<EntryEarlier>> /\ journalRuns = TRUE
    /\ kernel = ver1 /\ now = StartTime
    /\ callArgs = << >> /\ callValue = << >>
    /\ InitDaemon

NextIngest ==
    \/ PacmanParse
    \/ IngestEvent
    \/ PacmanDone
    \/ JournalParse
    \/ JournalDone
    \/ SnapshotCheck
    \/ PersistCursor
    \/ PersistJournal
    \/ Restart
    \/ \E line \in IngestLines : AppendLine(line)
    \/ SetLogOpens
    \/ Tick(10 * MsPerMinute)

SpecIngest == InitIngest /\ [][NextIngest]_vars

\* The lines of the file that end at or before a byte offset.
linesUpTo(file, offset) ==
    SubSeq(file, 1, Cardinality({i \in 1..Len(file) : lineEnd(file, i) <= offset}))

\* The events of a file, read from its start in runs of parsePacmanLog that
\* each continue at the cursor of the one before.
RECURSIVE eventsFrom(_, _)
eventsFrom(file, cursor) ==
    LET parsed == parsePacmanLog(file, TRUE, cursor)
    IN IF parsed.newCursor >= fileSize(file) THEN parsed.events
       ELSE parsed.events \o eventsFrom(file, Some(parsed.newCursor))

\* The events table after these events went through the ingestion loop.
RECURSIVE ingested(_, _)
ingested(table, list) ==
    IF list = << >> THEN table
    ELSE ingested(addEvent(table, [Head(list) EXCEPT !.hostId = HostId]), Tail(list))

\* The events table of a daemon that started when this one first did and has
\* run without a stop since, once its cursor stands where this one's does.
UninterruptedEvents ==
    ingested(ingested({}, eventsFrom(linesUpTo(log, OffsetOf(m_pacmanCursor)), NoValue)),
             parseJournalSince(journal, journalRuns,
                               defaultJournalStart(h_cycle.firstStart)).events)

\* A cycle has ended since the last start and has read the package log to
\* its end.
CaughtUp ==
    /\ pc = "idle" /\ h_cycle.done
    /\ OffsetOf(m_pacmanCursor) = fileSize(log)

\* C1: wherever the daemon stops or crashes, after the cycles that follow its
\* restart on the same database and logs the events table is that of a run
\* without a stop: no event of a matching log line is missing, no id twice.
C1_RestartEqualsUninterruptedRun ==
    /\ \A a, b \in events : a.id = b.id => a = b
    /\ CaughtUp => events = UninterruptedEvents

\* The part of C1 that holds: the rows of the package log's lines.
PacmanRowsEqualUninterrupted ==
    CaughtUp =>
        {row \in events : row.source = "Pacman"}
            = {row \in UninterruptedEvents : row.source = "Pacman"}

ValueOrZero(cursor) == IF cursor = NoValue THEN 0 ELSE cursor[1]

\* C6, as stated: when the package log cannot be opened, parsePacmanLog
\* returns no events and the cursor it was given, and after the cycle the
\* daemon's cursor, in memory and in the meta table, is what it was before.
C6_OpenFailureLeavesCursor ==
    /\ (lastParse.called /\ lastParse.hadError) =>
          /\ lastParse.events = << >>
          /\ Some(lastParse.newCursor) = lastParse.previousCursor
    /\ (pc = "idle" /\ h_cycle.done /\ h_cycle.openFailed) =>
          /\ m_pacmanCursor = h_cycle.cursor
          /\ getMeta(meta, "pacman_last_cursor") = h_cycle.persisted

\* C6, amended: when the package log cannot be opened, parsePacmanLog returns
\* no events and the cursor it was given, or "0" when it was given none; after
\* the cycle the daemon's cursor, in memory and in the meta table, is what it
\* was before, or "0" where there was none: the resume offset does not move.
C6_OpenFailureLeavesOffset ==
    /\ (lastParse.called /\ lastParse.hadError) =>
          /\ lastParse.events = << >>
          /\ lastParse.newCursor = ValueOrZero(lastParse.previousCursor)
    /\ (pc = "idle" /\ h_cycle.done /\ h_cycle.openFailed) =>
          /\ m_pacmanCursor = Some(ValueOrZero(h_cycle.cursor))
          /\ getMeta(meta, "pacman_last_cursor") = Some(ValueOrZero(h_cycle.persisted))

\* C6 happens: a cycle ended whose parse could not open a log that an earlier
\* cycle had read a part of, and that holds matching lines.
C6_Witness ==
    /\ pc = "idle" /\ h_cycle.done /\ h_cycle.openFailed
    /\ lastParse.hadError
    /\ h_cycle.cursor # NoValue /\ ValueOrZero(h_cycle.cursor) > 0
    /\ h_cycle.persisted = h_cycle.cursor
    /\ eventsFrom(log, NoValue) # << >>

\* ------------------------------------------- the daemon on a growing journal
\* Journal lines: fwupd's, the kernel's on amdgpu firmware, one that matches
\* nothing, and a "-- Boot --" line.
EntryFwupd == Entry(0, fwupd, txtFirmwareUpdateInstalled)
EntryAmdgpu == Entry(0, kernelProc, amdgpu \o sp \o txtFirmware \o sp \o txtVersion \o sp \o ver1)
EntryOther == Entry(0, kernelProc, linux)
EntryBoot == Entry(-1, << >>, << >>)

JournalEntries == {EntryFwupd, EntryAmdgpu, EntryOther, EntryBoot}

InitJournal == InitWorld /\ InitDaemon

NextJournal ==
    \/ PacmanParse
    \/ IngestEvent
    \/ PacmanDone
    \/ JournalParse
    \/ JournalDone
    \/ SnapshotCheck
    \/ PersistCursor
    \/ PersistJournal
    \/ Restart
    \/ \E entry \in JournalEntries : AppendJournal(entry)
    \/ SetJournalRuns
    \/ Tick(31 * MsPerMinute)

SpecJournal == InitJournal /\ [][NextJournal]_vars

\* The greatest of a non-empty set of time points.
Greatest(S) == CHOOSE t \in S : \A u \in S : u <= t

\* C7: parseJournalSince returns as lastTimestamp the greatest of since and
\* the timestamps of the lines that made events: never less than since, and
\* since itself when no line matches or journalctl fails.  Hence a running
\* daemon's watermark never decreases from one cycle to the next.
C7_WatermarkNeverRegresses ==
    /\ [](lastJournal.called =>
            /\ lastJournal.lastTimestamp
                 = Greatest({lastJournal.since}
                        \cup {lastJournal.events[i].timestamp :
                                 i \in 1..Len(lastJournal.events)})
            /\ lastJournal.lastTimestamp >= lastJournal.since
            /\ (lastJournal.events = << >> =>
                   lastJournal.lastTimestamp = lastJournal.since))
    /\ [][count'.restarts = count.restarts
            => m_journalLastTimestamp' >= m_journalLastTimestamp]_vars

\* C7 happens: a parse made events of two lines of different times and
\* returned the later time, which is after since, and the watermark now
\* stands there.
C7_Witness ==
    /\ lastJournal.called
    /\ Len(lastJournal.events) >= 2
    /\ lastJournal.lastTimestamp > lastJournal.since
    /\ \E i \in 1..Len(lastJournal.events) :
          lastJournal.events[i].timestamp < lastJournal.lastTimestamp
    /\ m_journalLastTimestamp = lastJournal.lastTimestamp

\* ------------------------------------------------ the daemon and watch rules
WatchLines == {LineK}
WatchRules == {RuleCritical, RuleKernel}

InitWatch == InitWorld /\ InitDaemon

NextWatch ==
    \/ PacmanParse
    \/ IngestEvent
    \/ PacmanDone
    \/ JournalParse
    \/ JournalDone
    \/ SnapshotCheck
    \/ PersistCursor
    \/ PersistJournal
    \/ \E line \in WatchLines : AppendLine(line)
    \/ KernelUpdate
    \/ \E rule \in WatchRules : upsert_watch_rule(rule)
    \/ \E rule \in WatchRules : delete_watch_rule(rule.id)
    \/ Tick(kRulesReloadInterval \div 2)

SpecWatch == InitWatch /\ [][NextWatch]_vars

\* C8: an ingested event has been through RiskClassifier::classify before the
\* store and the engine get it; so an ingested Kernel event is evaluated with
\* the rank of "critical", and an enabled event rule whose one predicate is
\* riskLevelAtLeast = "critical" writes a signal for it.
C8_KernelEventFiresCriticalRule ==
    (/\ lastEval.called /\ lastEval.kind = "event"
     /\ lastEval.artifact.category = "Kernel"
     /\ RuleCritical \in lastEval.cache) =>
        /\ lastEval.artifact.riskLevel = classify(lastEval.artifact).riskLevel
        /\ riskRank(eventRiskLevel(lastEval.artifact)) = riskRank(txtCritical)
        /\ \E s \in NewSignals :
              s.rule_id = RuleCritical.id /\ s.origin_id = lastEval.artifact.id

\* C9: whenever an evaluation writes a signal, the signal's rule id is the id
\* of a rule in the watch_rules table at that moment, however the upserts and
\* deletes of rules fall between the evaluations.
C9_SignalRuleIsStored ==
    [][\A s \in watchSignals' \ watchSignals :
          s.rule_id \in {rule.id : rule \in watchRules}]_vars

\* ------------------------------------------------- rules with active windows
\* "HH:MM" of a count of minutes after midnight.
digitChar(n) ==
    CASE n = 0 -> "0" [] n = 1 -> "1" [] n = 2 -> "2" [] n = 3 -> "3" [] n = 4 -> "4"
      [] n = 5 -> "5" [] n = 6 -> "6" [] n = 7 -> "7" [] n = 8 -> "8" [] OTHER -> "9"
twoDigits(n) == <<digitChar(n \div 10), digitChar(n % 10)>>
hhmm(minutes) == twoDigits(minutes \div 60) \o <<":">> \o twoDigits(minutes % 60)

\* Windows as [from, to) in minutes after midnight: 02:00-04:00, 22:00-02:00
\* (past midnight), 04:00-04:00 (empty), and 02:00-04:00 on a snapshot rule.
Windows ==
    {[id |-> "w-0200-0400", scope |-> "Event", from |-> 2 * 60, to |-> 4 * 60],
     [id |-> "w-2200-0200", scope |-> "Event", from |-> 22 * 60, to |-> 2 * 60],
     [id |-> "w-0400-0400", scope |-> "Event", from |-> 4 * 60, to |-> 4 * 60],
     [id |-> "w-snapshot", scope |-> "Snapshot", from |-> 2 * 60, to |-> 4 * 60]}

\* The rule of a window: enabled, no predicate but the window.
WindowRule(w) ==
    Rule(w.id, w.scope, "Warning", TRUE, << >>, << >>, << >>, hhmm(w.from), hhmm(w.to))

\* Rules with one bound of the window absent.
RuleFromOnly ==
    Rule("w-from-only", "Event", "Warning", TRUE, << >>, << >>, << >>, hhmm(2 * 60), << >>)
RuleToOnly ==
    Rule("w-to-only", "Event", "Warning", TRUE, << >>, << >>, << >>, << >>, hhmm(4 * 60))

WindowRules == {WindowRule(w) : w \in Windows} \cup {RuleFromOnly, RuleToOnly}

\* Times of day of the artifacts, in minutes after midnight of day 1: the
\* bounds of the windows, and points inside and outside them.
WindowMinutes == {1 * 60, 2 * 60, 3 * 60, 3 * 60 + 59, 4 * 60, 5 * 60, 22 * 60, 23 * 60}

EventAt(minutes) ==
    [eventOfLine(LineK) EXCEPT
        !.id = <<"event", minutes, << >>, << >>>>,
        !.timestamp = (MinutesPerDay + minutes) * MsPerMinute + 59 * MsPerSecond]

SnapshotAt(minutes) ==
    buildCurrentSnapshot((MinutesPerDay + minutes) * MsPerMinute, ver1)

InitWindow ==
    /\ InitWorld
    /\ watchRules = WindowRules
    /\ events = {} /\ snapshots = {} /\ meta = << >> /\ watchSignals = {}
    /\ m_pacmanCursor = NoValue
    /\ m_journalLastTimestamp = defaultJournalStart(now)
    /\ m_lastSnapshot = NoValue
    /\ m_watchEngine = [cache |-> {}, lastReload |-> 0]
    /\ pc = "idle" /\ pending = << >>
    /\ result = [newCursor |-> 0, lastTimestamp |-> 0]
    /\ lastParse = NoParse /\ lastJournal = NoJournal /\ lastEval = NoEval
    /\ lastAdd = NoAdd /\ h_cycle = NoCycle /\ count = NoCount

NextWindow ==
    \/ \E minutes \in WindowMinutes : EvaluateEventCall(EventAt(minutes))
    \/ \E minutes \in {3 * 60, 5 * 60} : EvaluateSnapshotCall(SnapshotAt(minutes))

SpecWindow == InitWindow /\ [][NextWindow]_vars

\* Whether a minute of the day lies in the window [from, to), which runs past
\* midnight when from > to.
InsideWindow(w, minute) ==
    IF w.from <= w.to THEN w.from <= minute /\ minute < w.to
    ELSE minute >= w.from \/ minute < w.to

\* The minute of the local day of the artifact of the last evaluation.
ArtifactMinute == (lastEval.artifact.timestamp \div MsPerMinute) % MinutesPerDay

FiredFor(ruleId) == \E s \in NewSignals : s.rule_id = ruleId

\* C11: a rule whose window bounds are both valid HH:MM passes the window gate
\* exactly when the artifact's local time of day is outside [activeFrom,
\* activeTo), a window with activeFrom > activeTo running past midnight; a rule
\* with a bound absent always passes.  So the 02:00-04:00 rule is silent at
\* 03:00 and fires at 05:00.
C11_FiresOutsideWindowOnly ==
    lastEval.called =>
        /\ \A w \in Windows :
              /\ withinActiveWindow(WindowRule(w), lastEval.artifact.timestamp)
                    = ~InsideWindow(w, ArtifactMinute)
              /\ FiredFor(w.id) =
                    (/\ (w.scope = "Event") = (lastEval.kind = "event")
                     /\ ~InsideWindow(w, ArtifactMinute))
        /\ \A rule \in {RuleFromOnly, RuleToOnly} :
              /\ withinActiveWindow(rule, lastEval.artifact.timestamp)
              /\ FiredFor(rule.id) = (lastEval.kind = "event")
        /\ ArtifactMinute = 3 * 60 => ~FiredFor("w-0200-0400")
        /\ (ArtifactMinute = 5 * 60 /\ lastEval.kind = "event") => FiredFor("w-0200-0400")

\* C11 happens: an event of 05:00 fired the rules of 02:00-04:00 and of
\* 22:00-02:00, after an event of 03:00 had left the first silent and one of
\* 23:00 had fired the first and left the second silent.
C11_Witness ==
    /\ lastEval.called /\ lastEval.kind = "event" /\ ArtifactMinute = 5 * 60
    /\ FiredFor("w-0200-0400") /\ FiredFor("w-2200-0200")
    /\ \E s \in watchSignals :
          s.origin_id = EventAt(3 * 60).id /\ s.rule_id = "w-from-only"
    /\ ~\E s \in watchSignals :
          s.origin_id = EventAt(3 * 60).id /\ s.rule_id = "w-0200-0400"
    /\ \E s \in watchSignals :
          s.origin_id = EventAt(23 * 60).id /\ s.rule_id = "w-0200-0400"
    /\ ~\E s \in watchSignals :
          s.origin_id = EventAt(23 * 60).id /\ s.rule_id = "w-2200-0200"

\* C12: the engine loads the rules on its first evaluation, and after that at
\* most once in a reload interval: an evaluation that queries the store again
\* comes at least 60 seconds after the load before it, whatever the rules
\* table holds.
C12_ReloadAtMostOncePerInterval ==
    [][count'.calls # count.calls =>
          /\ m_watchEngine.lastReload = 0 =>
                /\ queriesStore(m_watchEngine.cache, m_watchEngine.lastReload, now)
                /\ m_watchEngine' = [cache |-> listWatchRules(watchRules),
                                     lastReload |-> now]
          /\ (/\ m_watchEngine.lastReload # 0
              /\ queriesStore(m_watchEngine.cache, m_watchEngine.lastReload, now)) =>
                now - m_watchEngine.lastReload >= kRulesReloadInterval]_vars

\* ------------------------------------------------ the daemon's snapshot check
InitSnapshot == InitWorld /\ InitDaemon

NextSnapshot ==
    \/ PacmanParse
    \/ IngestEvent
    \/ PacmanDone
    \/ JournalParse
    \/ JournalDone
    \/ SnapshotCheck
    \/ PersistCursor
    \/ PersistJournal
    \/ Restart
    \/ AppendLine(LineK)
    \/ KernelUpdate
    \/ UnameFails
    \/ UnameRecovers
    \/ Tick(5 * MsPerMinute)

SpecSnapshot == InitSnapshot /\ [][NextSnapshot]_vars

\* The step that is one run of runSnapshotCheck.
SnapshotStep == pc = "snapshot" /\ pc' = "persist"

\* The rows of events written by runSnapshotCheck.
KernelChangeRows(table) == {row \in table : row.source = "Uname"}

\* C13: with no snapshot cached, runSnapshotCheck stores the current snapshot
\* and adds no event.  With one cached, it stores the current snapshot and
\* adds exactly one Kernel event, whose before and after kernelVersion are the
\* cached and the current version, if the two versions differ, and writes
\* nothing if they are equal.  After storing, the cache is the stored snapshot.
C13_SnapshotCheckWritesOnKernelChange ==
    [][SnapshotStep =>
          IF m_lastSnapshot = NoValue
          THEN /\ events' = events
               /\ \E row \in snapshots' :
                     /\ row.kernel_version = kernel
                     /\ row.timestamp = toEpochSeconds(now)
                     /\ snapshots' \ {row} = {old \in snapshots : old.id # row.id}
                     /\ m_lastSnapshot' # NoValue
                     /\ snapshotRow(m_lastSnapshot'[1]) = row
          ELSE IF m_lastSnapshot[1].kernelVersion = kernel
          THEN /\ events' = events /\ snapshots' = snapshots
               /\ watchSignals' = watchSignals
               /\ m_lastSnapshot' = m_lastSnapshot
          ELSE /\ \E row \in snapshots' :
                     /\ row.kernel_version = kernel
                     /\ row.timestamp = toEpochSeconds(now)
                     /\ snapshots' \ {row} = {old \in snapshots : old.id # row.id}
                     /\ m_lastSnapshot' # NoValue
                     /\ snapshotRow(m_lastSnapshot'[1]) = row
               /\ \E row \in events' :
                     /\ events' \ {row} = {old \in events : old.id # row.id}
                     /\ row.category = "Kernel"
                     /\ row.before_state = ("kernelVersion" :> m_lastSnapshot[1].kernelVersion)
                     /\ row.after_state = ("kernelVersion" :> kernel)
                     /\ row \in KernelChangeRows(events')
                     /\ row \notin events]_vars

\* C13 happens: a daemon restarted on a database with a stored snapshot has
\* found another kernel version and stored a second snapshot and one event.
C13_Witness ==
    /\ pc = "persist"
    /\ count.restarts = 1
    /\ Cardinality(snapshots) = 2
    /\ Cardinality(KernelChangeRows(events)) = 1
    /\ \E row \in KernelChangeRows(events) :
          /\ row.before_state = ("kernelVersion" :> ver1)
          /\ row.after_state = ("kernelVersion" :> ver2)
    /\ m_lastSnapshot # NoValue /\ m_lastSnapshot[1].kernelVersion = ver2

\* The kernel version of the newest stored snapshot that has one: the version
\* that was cached before `uname -r` began to fail.
LastGoodKernel ==
    LET good == {row \in snapshots : row.kernel_version # << >>}
    IN IF good = {} THEN << >>
       ELSE (CHOOSE row \in good : \A other \in good : other.timestamp <= row.timestamp)
                .kernel_version

\* C14: a cycle in which `uname -r` fails adds no kernel-change event, and
\* neither does a later cycle in which it works again and prints the version
\* that was cached before the failure.
C14_FailedCommandYieldsNoEvent ==
    [][SnapshotStep =>
          /\ kernel = << >> => KernelChangeRows(events') = KernelChangeRows(events)
          /\ (/\ kernel # << >>
              /\ m_lastSnapshot # NoValue
              /\ m_lastSnapshot[1].kernelVersion = << >>
              /\ kernel = LastGoodKernel) =>
                KernelChangeRows(events') = KernelChangeRows(events)]_vars

\* --------------------------------------------- the daemon on failing sources
\* The consecutive failures after which a source is to be backed off from.
BackoffThreshold == 3

\* The cycle counter starts below zero, so that the run has room for the
\* failing cycles and the one after them.
InitBackoff ==
    /\ InitWorld
    /\ events = {} /\ snapshots = {} /\ meta = << >>
    /\ watchRules = {} /\ watchSignals = {}
    /\ m_pacmanCursor = NoValue
    /\ m_journalLastTimestamp = defaultJournalStart(now)
    /\ m_lastSnapshot = NoValue
    /\ m_watchEngine = [cache |-> {}, lastReload |-> 0]
    /\ pc = "idle" /\ pending = << >>
    /\ result = [newCursor |-> 0, lastTimestamp |-> 0]
    /\ lastParse = NoParse /\ lastJournal = NoJournal /\ lastEval = NoEval
    /\ lastAdd = NoAdd /\ h_cycle = NoCycle
    /\ count = [NoCount EXCEPT !.cycles = MaxCycles - (BackoffThreshold + 1)]

NextBackoff ==
    \/ PacmanParse
    \/ IngestEvent
    \/ PacmanDone
    \/ JournalParse
    \/ JournalDone
    \/ SnapshotCheck
    \/ PersistCursor
    \/ PersistJournal
    \/ AppendLine(LineK)
    \/ SetLogOpens
    \/ SetJournalRuns

SpecBackoff == InitBackoff /\ [][NextBackoff]_vars

\* C15: after three consecutive failed ingestions of a source the daemon
\* leaves the source alone in the cycles that follow: no cycle calls
\* parsePacmanLog right after three package-log failures in a row, nor
\* parseJournalSince right after three journal failures in a row.
C15_BackoffAfterThreeFailures ==
    [][/\ (pc = "idle" /\ pc' = "pacman") =>
             h_cycle.pacmanFailures < BackoffThreshold
       /\ (pc = "journalStart" /\ pc' = "journal") =>
             h_cycle.journalFailures < BackoffThreshold]_vars

\* C16: a cycle whose elapsed time after the package step or after the
\* journal step exceeds the budget does not run its remaining steps.  The
\* budget is taken as the timer's interval, the most a budget for one cycle
\* can be.
C16_OverBudgetCycleDefersSteps ==
    [][/\ (pc = "journalStart" /\ pc' = "journal") =>
             now - h_cycle.start <= kIngestionIntervalMs
       /\ (pc = "snapshot" /\ pc' = "persist") =>
             now - h_cycle.start <= kIngestionIntervalMs]_vars

-----------------------------------------------------------------------------
\* The risk classifier called alone, on events of every category

summaryUpgraded == <<"U", "p", "g", "r", "a", "d", "e", "d", " ", "v", "i", "m">>
summaryDowngraded == <<"d", "o", "w", "n", "g", "r", "a", "d", "e", "d", " ", "v", "i", "m">>
summaryDOWNGRADED == <<"D", "O", "W", "N", "G", "R", "A", "D", "E", "D", " ", "v", "i", "m">>
summaryDowngrade == <<"D", "o", "w", "n", "g", "r", "a", "d", "e", " ", "v", "i", "m">>

EventCategories == {"Kernel", "GpuDriver", "Firmware", "Package", "System"}
ClassifySummaries ==
    {<< >>, summaryUpgraded, summaryDowngraded, summaryDOWNGRADED, summaryDowngrade}
PriorRisks ==
    {[level |-> "info", reason |-> << >>],
     [level |-> "important", reason |-> reasonGpu \o <<".">>],
     [level |-> "critical", reason |-> << >>],
     [level |-> "critical", reason |-> reasonKernel \o <<".">>]}

ClassifyEvent(category, summary, prior) ==
    [id |-> <<"event", 0, << >>, << >>>>,
     timestamp |-> StartTime,
     category |-> category,
     source |-> "Pacman",
     summary |-> summary,
     details |-> << >>,
     beforeState |-> << >>,
     afterState |-> << >>,
     relatedPackages |-> << >>,
     riskLevel |-> prior.level,
     riskReason |-> prior.reason,
     hostId |-> ""]

ClassifyEvents ==
    {ClassifyEvent(c, s, p) : c \in EventCategories, s \in ClassifySummaries,
                              p \in PriorRisks}

\* RiskClassifier::classify(event): the event is overwritten in place
ClassifyCall ==
    /\ callArgs # << >> /\ callValue = << >>
    /\ callValue' = <<classify(callArgs[1])>>
    /\ count' = [count EXCEPT !.calls = 1]
    /\ UNCHANGED <<callArgs, fileVars, worldVars, tableVars, daemonVars, historyVars>>

\* classify called again on the event it has just classified
ClassifyAgain ==
    /\ callValue # << >> /\ count.calls < MaxCalls
    /\ callArgs' = callValue
    /\ callValue' = <<classify(callValue[1])>>
    /\ count' = [count EXCEPT !.calls = @ + 1]
    /\ UNCHANGED <<fileVars, worldVars, tableVars, daemonVars, historyVars>>

InitClassify ==
    /\ log = << >> /\ logOpens = TRUE /\ h_read = 0 /\ h_fresh = FALSE
    /\ journal = << >> /\ journalRuns = TRUE
    /\ kernel = ver1 /\ now = StartTime
    /\ InitDaemon
    /\ \E event \in ClassifyEvents : callArgs = <<event>>
    /\ callValue = << >>

NextClassify == ClassifyCall \/ ClassifyAgain

SpecClassify == InitClassify /\ [][NextClassify]_vars

Classified == callArgs # << >> /\ callValue # << >>

\* C17: what classify leaves in riskLevel and riskReason is the same for every
\* event of the same category and summary, whatever risk the event came with;
\* classifying the classified event again changes nothing; and an event of
\* category Kernel ends with riskLevel "critical".
C17_ClassifyDependsOnCategoryAndSummaryOnly ==
    Classified =>
        LET e == callArgs[1]
            r == callValue[1]
        IN /\ \A other \in ClassifyEvents :
                  (other.category = e.category /\ other.summary = e.summary) =>
                      /\ classify(other).riskLevel = r.riskLevel
                      /\ classify(other).riskReason = r.riskReason
           /\ count.calls >= 2 => r = e
           /\ e.category = "Kernel" => r.riskLevel = "critical"

C17_Witness ==
    /\ Classified /\ count.calls >= 2
    /\ callArgs[1].category = "Kernel"
    /\ callValue[1].riskLevel = "critical"
    /\ callValue[1].riskReason = reasonKernel \o <<".">>

\* The four rules of classify in the order it tries them
appliesTo(event) ==
    <<event.category = "Kernel", event.category = "GpuDriver",
      event.category = "Firmware", Find(toLower(event.summary), downgraded)>>
ruleLevels == <<"critical", "important", "important", "important">>
ruleReasons == <<reasonKernel, reasonGpu, reasonFirmware, reasonDowngrade>>

Applying(event) == {i \in 1..4 : appliesTo(event)[i]}
WinningRank(event) ==
    IF Applying(event) = {} THEN 0
    ELSE CHOOSE rank \in 0..2 :
           /\ \E i \in Applying(event) : severityRank(ruleLevels[i]) = rank
           /\ \A i \in Applying(event) : severityRank(ruleLevels[i]) <= rank
Winners(event) ==
    {i \in Applying(event) : severityRank(ruleLevels[i]) = WinningRank(event)}

RECURSIVE JoinedReasons(_, _)
JoinedReasons(winners, from) ==
    IF from > 4 THEN << >>
    ELSE LET rest == JoinedReasons(winners, from + 1)
         IN IF from \notin winners THEN rest
            ELSE IF rest = << >> THEN ruleReasons[from] \o <<".">>
            ELSE ruleReasons[from] \o <<".">> \o sp \o rest

\* C18: classify leaves the level of the highest rank among the rules that
\* apply, "info" with an empty reason when none applies, and the reasons of
\* the applying rules of that rank, in rule order, each ended by a period and
\* joined by single spaces; a reason of a lower rank is not in it.
C18_MaxRankAndItsReasons ==
    Classified =>
        LET e == callArgs[1]
            r == callValue[1]
        IN /\ severityRank(r.riskLevel) = WinningRank(e)
           /\ r.riskLevel \in {"info", "important", "critical"}
           /\ r.riskReason = JoinedReasons(Winners(e), 1)
           /\ Applying(e) = {} => r.riskLevel = "info" /\ r.riskReason = << >>
           /\ \A i \in Applying(e) \ Winners(e) : ~Find(r.riskReason, ruleReasons[i])

C18_Witness ==
    /\ Classified /\ count.calls = 1
    /\ callArgs[1].category = "GpuDriver"
    /\ callArgs[1].summary = summaryDOWNGRADED
    /\ callArgs[1].riskLevel = "critical"
    /\ callValue[1].riskLevel = "important"
    /\ callValue[1].riskReason = reasonGpu \o <<".">> \o sp \o reasonDowngrade \o <<".">>

-----------------------------------------------------------------------------
\* Snapshot diffs, asked of the store and through the API

snapshotId(minutes) == <<"snapshot", StartTime + minutes * MsPerMinute, << >>, << >>>>
EmptyId == << >>
StoredIds == {snapshotId(0), snapshotId(1)}
UnknownId == snapshotId(9)

DiffContents ==
    {[kernelVersion |-> ver1, gpuDriver |-> << >>, keyPackages |-> installedPackages],
     [kernelVersion |-> ver2, gpuDriver |-> ("name" :> mesa),
      keyPackages |-> ("linux" :> ver1) @@ ("vim" :> ver1)],
     [kernelVersion |-> ver1, gpuDriver |-> << >>, keyPackages |-> << >>],
     [kernelVersion |-> ver2, gpuDriver |-> << >>, keyPackages |-> ("vim" :> << >>)]}

DiffSnapshots ==
    {[id |-> snapshotId(m), timestamp |-> StartTime + m * MsPerMinute,
      kernelVersion |-> c.kernelVersion, gpuDriver |-> c.gpuDriver,
      firmwareVersions |-> << >>, keyPackages |-> c.keyPackages, hostId |-> ""] :
        m \in {0, 1}, c \in DiffContents}

\* KhronicleStore::diffSnapshots(aId, bId) called on the store as it is
DiffSnapshotsCall(aId, bId) ==
    /\ callArgs' = <<"diffSnapshots", aId, bId, snapshots>>
    /\ callValue' = <<diffSnapshots(snapshots, aId, bId)>>
    /\ UNCHANGED <<fileVars, worldVars, tableVars, daemonVars, historyVars, count>>

\* A diff_snapshots request: params a and b, either of which may be missing
DiffSnapshotsRequest(aId, bId) ==
    /\ callArgs' = <<"diff_snapshots", aId, bId, snapshots>>
    /\ callValue' = <<diff_snapshots(snapshots, aId, bId, 1)>>
    /\ UNCHANGED <<fileVars, worldVars, tableVars, daemonVars, historyVars, count>>

InitDiff == InitWorld /\ InitDaemon

NextDiff ==
    \/ \E snapshot \in DiffSnapshots : AddSnapshotCall(snapshot)
    \/ \E aId, bId \in StoredIds \cup {UnknownId} : DiffSnapshotsCall(aId, bId)
    \/ \E aId, bId \in StoredIds \cup {UnknownId, EmptyId} : DiffSnapshotsRequest(aId, bId)

SpecDiff == InitDiff /\ [][NextDiff]_vars

Paths(diff) == {diff.changedFields[i].path : i \in 1..Len(diff.changedFields)}
FieldAt(diff, path) ==
    diff.changedFields[CHOOSE i \in 1..Len(diff.changedFields) :
                           diff.changedFields[i].path = path]
\* The store's snapshots table at the call is the call's fourth argument
IsStored(id) == \E row \in callArgs[4] : row.id = id
DiffAsked == callArgs # << >> /\ callArgs[1] = "diffSnapshots"
DiffRequested == callArgs # << >> /\ callArgs[1] = "diff_snapshots"

\* C19: for two stored snapshots a and b, the diff of (a, b) and the diff of
\* (b, a) name the same changed paths, and for each path the before of the one
\* is the after of the other.
C19_DiffIsSymmetric ==
    (DiffAsked /\ IsStored(callArgs[2]) /\ IsStored(callArgs[3])) =>
        LET ab == callValue[1]
            ba == diffSnapshots(callArgs[4], callArgs[3], callArgs[2])
        IN /\ Paths(ab) = Paths(ba)
           /\ Len(ab.changedFields) = Cardinality(Paths(ab))
           /\ Len(ba.changedFields) = Cardinality(Paths(ba))
           /\ \A path \in Paths(ab) :
                  /\ FieldAt(ab, path).before = FieldAt(ba, path).after
                  /\ FieldAt(ab, path).after = FieldAt(ba, path).before

C19_Witness ==
    /\ DiffAsked /\ IsStored(callArgs[2]) /\ IsStored(callArgs[3])
    /\ callArgs[2] # callArgs[3]
    /\ {"kernelVersion", "gpuDriver", "keyPackages.mesa", "keyPackages.vim"}
           \subseteq Paths(callValue[1])
    /\ FieldAt(callValue[1], "keyPackages.vim").before = NoValue

\* C20: diffSnapshots with an id that is not stored, as either argument,
\* returns a diff with no changed fields; a diff_snapshots request whose two
\* ids are not empty returns a result and not an error, whether or not the
\* ids are stored, and for an id that is not stored the diff in it is empty.
C20_UnknownIdGivesEmptyDiff ==
    /\ (DiffAsked /\ (~IsStored(callArgs[2]) \/ ~IsStored(callArgs[3]))) =>
           /\ callValue[1].changedFields = << >>
           /\ callValue[1].snapshotAId = callArgs[2]
           /\ callValue[1].snapshotBId = callArgs[3]
    /\ (DiffRequested /\ callArgs[2] # EmptyId /\ callArgs[3] # EmptyId) =>
           /\ DOMAIN callValue[1] = {"result", "id"}
           /\ (~IsStored(callArgs[2]) \/ ~IsStored(callArgs[3])) =>
                  callValue[1].result.diff.changedFields = << >>

C20_Witness ==
    /\ DiffRequested
    /\ IsStored(callArgs[2]) /\ callArgs[3] = UnknownId
    /\ snapshotFromRow(CHOOSE row \in callArgs[4] : row.id = callArgs[2]).keyPackages # << >>
    /\ DOMAIN callValue[1] = {"result", "id"}
    /\ callValue[1].result.diff.changedFields = << >>

-----------------------------------------------------------------------------
\* Counterfactual explanations, computed on two snapshots and a set of events

ExplainContents ==
    {[kernelVersion |-> ver1, gpuDriver |-> << >>, firmwareVersions |-> << >>,
      keyPackages |-> installedPackages],
     [kernelVersion |-> ver2, gpuDriver |-> << >>, firmwareVersions |-> << >>,
      keyPackages |-> installedPackages],
     [kernelVersion |-> ver1, gpuDriver |-> ("name" :> mesa), firmwareVersions |-> << >>,
      keyPackages |-> installedPackages],
     [kernelVersion |-> ver1, gpuDriver |-> << >>, firmwareVersions |-> ("bios" :> ver2),
      keyPackages |-> installedPackages],
     [kernelVersion |-> ver2, gpuDriver |-> << >>, firmwareVersions |-> << >>,
      keyPackages |-> ("vim" :> ver1)]}

ExplainSnapshot(minutes, content) ==
    [id |-> snapshotId(minutes), timestamp |-> StartTime + minutes * MsPerMinute,
     kernelVersion |-> content.kernelVersion, gpuDriver |-> content.gpuDriver,
     firmwareVersions |-> content.firmwareVersions,
     keyPackages |-> content.keyPackages, hostId |-> HostId]

\* One intervening event of each of the given categories
ExplainEvents(categories) ==
    {[eventOfLine(LineK) EXCEPT
          !.category = category, !.id = <<"event", 1, category, << >>>>,
          !.timestamp = StartTime + 30 * MsPerSecond] :
        category \in categories}

\* computeCounterfactual(baseline, comparison, interveningEvents) called on
\* the three values that were drawn
ComputeCounterfactualCall ==
    /\ callArgs # << >> /\ callValue = << >>
    /\ callValue' = <<computeCounterfactual(callArgs[2], callArgs[3], callArgs[4])>>
    /\ UNCHANGED <<callArgs, fileVars, worldVars, tableVars, daemonVars, historyVars,
                   count>>

InitExplain ==
    /\ log = << >> /\ logOpens = TRUE /\ h_read = 0 /\ h_fresh = FALSE
    /\ journal = << >> /\ journalRuns = TRUE
    /\ kernel = ver1 /\ now = StartTime
    /\ InitDaemon
    /\ \E a, b \in ExplainContents,
          categories \in SUBSET {"Kernel", "GpuDriver", "Firmware", "Package"} :
           callArgs = <<"computeCounterfactual", ExplainSnapshot(0, a),
                        ExplainSnapshot(1, b), ExplainEvents(categories)>>
    /\ callValue = << >>

NextExplain == ComputeCounterfactualCall

SpecExplain == InitExplain /\ [][NextExplain]_vars

Explained == callArgs # << >> /\ callValue # << >>
Pieces(text) == {text[i] : i \in 1..Len(text)}
SawCategory(category) == \E event \in callArgs[4] : event.category = category
OnlyKernelDiffers ==
    /\ callArgs[2].kernelVersion # callArgs[3].kernelVersion
    /\ callArgs[2].gpuDriver = callArgs[3].gpuDriver
    /\ callArgs[2].firmwareVersions = callArgs[3].firmwareVersions
    /\ callArgs[2].keyPackages = callArgs[3].keyPackages

\* C30: computeCounterfactual on two snapshots that differ only in
\* kernelVersion gives a diff with the one changed field kernelVersion, and
\* with no intervening event the explanation has the kernel clause.  In
\* general the explanation has the kernel, GPU or firmware clause exactly
\* when the diff has that field or an intervening event has that category,
\* the key-packages clause exactly when a keyPackages path changed, is the
\* fixed sentence exactly when no clause applies, and ends with the
\* may-explain sentence exactly when a clause is present.
C30_CounterfactualExplains ==
    Explained =>
        LET diff == callValue[1].diff
            text == callValue[1].explanationSummary
            clauses == Pieces(text) \cap {clauseKernel, clauseGpu, clauseFirmware, clausePackages}
        IN /\ OnlyKernelDiffers =>
                  /\ Len(diff.changedFields) = 1
                  /\ diff.changedFields[1].path = "kernelVersion"
                  /\ callArgs[4] = {} => clauseKernel \in Pieces(text)
           /\ clauseKernel \in Pieces(text) <=>
                  ("kernelVersion" \in Paths(diff) \/ SawCategory("Kernel"))
           /\ clauseGpu \in Pieces(text) <=>
                  ("gpuDriver" \in Paths(diff) \/ SawCategory("GpuDriver"))
           /\ clauseFirmware \in Pieces(text) <=>
                  ("firmwareVersions" \in Paths(diff) \/ SawCategory("Firmware"))
           /\ clausePackages \in Pieces(text) <=>
                  (\E path \in Paths(diff) : hasKeyPackagesPrefix(path))
           /\ text = <<textNoChange>> <=> clauses = {}
           /\ textNoChange \in Pieces(text) <=> clauses = {}
           /\ clauses # {} <=> (text[1] = textDuring /\ text[Len(text)] = textMayExplain)

C30_Witness ==
    /\ Explained /\ OnlyKernelDiffers /\ callArgs[4] = {}
    /\ Len(callValue[1].diff.changedFields) = 1
    /\ callValue[1].explanationSummary = <<textDuring, clauseKernel, textMayExplain>>

-----------------------------------------------------------------------------
\* Requests to the API server

ProtocolMethods ==
    {"get_changes_since", "get_changes_between", "list_snapshots", "get_snapshot",
     "diff_snapshots", "summary_since", "list_watch_rules", "upsert_watch_rule",
     "delete_watch_rule", "get_watch_signals_since", "explain_change_between",
     "what_changed_since_last_good", "get_daemon_status"}
SinceMethods == {"get_changes_since", "summary_since", "get_watch_signals_since"}
BetweenMethods == {"get_changes_between", "explain_change_between"}

\* The texts of timestamps: 1970-01-01T00:00:00Z, the second of the first
\* stored snapshot, and the two minutes after it.
IsoEpoch == 0
IsoStart == StartTime \div MsPerSecond
IsoLater == IsoStart + 60
IsoLast == IsoStart + 120

Request(id, method, params) ==
    JsonObject(("id" :> JsonInteger(id)) @@ ("method" :> JsonString(method))
               @@ ("params" :> JsonObject(params)))

ApiSnapshots ==
    {[SnapshotAt(360) EXCEPT !.id = snapshotId(0)],
     [buildCurrentSnapshot(StartTime + MsPerMinute, ver2) EXCEPT !.id = snapshotId(1)]}
ApiEvents == {EventAt(360), EventAt(361)}
ApiRules == {RuleKernel, RuleKernelOff, RuleCritical}

SinceRequests ==
    {Request(7, method, params) :
        method \in SinceMethods,
        params \in {<< >>, "since" :> JsonString(NoText), "since" :> JsonString(IsoEpoch),
                    "since" :> JsonString(IsoStart), "since" :> JsonString(IsoLast),
                    "since" :> JsonInteger(IsoStart)}}
BetweenRequests ==
    {Request(7, method, params) :
        method \in BetweenMethods,
        params \in {<< >>,
                    ("from" :> JsonString(IsoStart)) @@ ("to" :> JsonString(IsoLast)),
                    ("from" :> JsonString(IsoLater)) @@ ("to" :> JsonString(IsoLater)),
                    ("from" :> JsonString(IsoEpoch)) @@ ("to" :> JsonString(IsoLast)),
                    ("from" :> JsonString(IsoStart)) @@ ("to" :> JsonString(NoText)),
                    ("from" :> JsonString(IsoStart)),
                    ("from" :> JsonString(IsoStart)) @@ ("to" :> JsonArray(IsoLast))}}
SnapshotRequests ==
    {Request(7, "list_snapshots", << >>),
     Request(7, "get_snapshot", << >>),
     Request(7, "get_snapshot", "id" :> JsonString(snapshotId(0))),
     Request(7, "get_snapshot", "id" :> JsonString(UnknownId)),
     Request(7, "diff_snapshots",
             ("a" :> JsonString(snapshotId(0))) @@ ("b" :> JsonString(snapshotId(1)))),
     Request(7, "diff_snapshots", "a" :> JsonString(snapshotId(0))),
     Request(7, "what_changed_since_last_good", << >>),
     Request(7, "what_changed_since_last_good",
             "referenceSnapshotId" :> JsonString(snapshotId(0))),
     Request(7, "what_changed_since_last_good",
             "referenceSnapshotId" :> JsonString(UnknownId)),
     Request(7, "what_changed_since_last_good", "referenceSnapshotId" :> JsonArray(snapshotId(0)))}
RuleRequests ==
    {Request(7, "list_watch_rules", << >>),
     Request(7, "upsert_watch_rule", << >>),
     Request(7, "upsert_watch_rule", "rule" :> JsonArray(RuleKernel)),
     Request(7, "upsert_watch_rule", "rule" :> JsonObject([RuleKernel EXCEPT !.id = ""])),
     Request(7, "delete_watch_rule", << >>),
     Request(7, "delete_watch_rule", "id" :> JsonString(RuleKernel.id)),
     Request(7, "delete_watch_rule", "id" :> JsonString(RuleCritical.id)),
     Request(7, "delete_watch_rule", "id" :> JsonArray(RuleKernel.id))}
    \cup {Request(7, "upsert_watch_rule", "rule" :> JsonObject(rule)) : rule \in ApiRules}
OtherRequests ==
    {Discarded, JsonArray(<< >>),
     Request(7, "get_daemon_status", << >>),
     Request(7, "unknown_method", << >>),
     JsonObject(("id" :> JsonWide(1, 7)) @@ ("method" :> JsonString("list_snapshots"))),
     JsonObject("id" :> JsonInteger(7)),
     JsonObject(("id" :> JsonInteger(7)) @@ ("method" :> JsonArray("list_snapshots"))),
     JsonObject("method" :> JsonString("list_snapshots")),
     JsonObject(("id" :> JsonArray(7)) @@ ("method" :> JsonString("list_watch_rules"))),
     JsonObject(("id" :> JsonInteger(7)) @@ ("method" :> JsonString("list_snapshots"))
                @@ ("params" :> JsonArray(<< >>)))}

\* The tables as handleRequest finds them
ApiStore ==
    [events |-> events, snapshots |-> snapshots, meta |-> meta,
     watchRules |-> watchRules, watchSignals |-> watchSignals]

\* A client connects and writes the text of one request; the socket takes it
\* whatever the daemon is doing.  The call variables hold the connection:
\* the request, whether the store's statements fail, the tables at the
\* dispatch, and whether an ingestion cycle was running at the connect.
Connect(json, storageFails) ==
    /\ callArgs' = <<"connection", json, storageFails, << >>, pc # "idle">>
    /\ callValue' = [delivered |-> 0, open |-> TRUE, written |-> << >>,
                     payload |-> << >>]
    /\ UNCHANGED <<fileVars, worldVars, tableVars, daemonVars, historyVars, count>>

Connected == callArgs # << >> /\ callArgs[1] = "connection"

\* handleClientReadyRead: readAll() gives the units that have arrived, and
\* handleRequest runs on them.  The slot runs on the daemon's event loop,
\* between cycles.
handleClientReadyRead(arrived) ==
    /\ pc = "idle"
    /\ Connected /\ callValue.open
    /\ arrived >= 1 /\ callValue.delivered + arrived <= MaxPieces
    /\ LET payload == Bytes(callArgs[2], callValue.delivered + 1,
                            callValue.delivered + arrived)
           reply == handleRequest(ApiStore, payload, callArgs[3])
       IN /\ watchRules' = reply.watchRules
          /\ callValue' = [delivered |-> callValue.delivered + arrived,
                           open |-> ~reply.disconnected,
                           written |-> callValue.written \o reply.written,
                           payload |-> payload]
          /\ callArgs' = [callArgs EXCEPT ![4] = ApiStore]
    /\ UNCHANGED <<fileVars, worldVars, events, snapshots, meta, watchSignals,
                   daemonVars, historyVars, count>>

\* The daemon is constructed on a database that earlier runs may have
\* written events and snapshots to.
InitApi ==
    /\ InitWorld
    /\ events \in {{}, {eventRow(event) : event \in ApiEvents}}
    /\ snapshots \in {{}, {snapshotRow(snapshot) : snapshot \in ApiSnapshots}}
    /\ meta = << >> /\ watchRules = {} /\ watchSignals = {}
    /\ m_pacmanCursor = NoValue
    /\ m_journalLastTimestamp = defaultJournalStart(now)
    /\ IF snapshots = {} THEN m_lastSnapshot = NoValue
       ELSE \E latest \in latestSnapshots(snapshots) : m_lastSnapshot = Some(latest)
    /\ m_watchEngine = [cache |-> {}, lastReload |-> 0]
    /\ pc = "idle" /\ pending = << >>
    /\ result = [newCursor |-> 0, lastTimestamp |-> 0]
    /\ lastParse = NoParse /\ lastJournal = NoJournal /\ lastEval = NoEval
    /\ lastAdd = NoAdd /\ h_cycle = NoCycle /\ count = NoCount

NextApi ==
    \/ \E json \in SinceRequests, storageFails \in BOOLEAN : Connect(json, storageFails)
    \/ \E json \in BetweenRequests, storageFails \in BOOLEAN : Connect(json, storageFails)
    \/ \E json \in SnapshotRequests, storageFails \in BOOLEAN : Connect(json, storageFails)
    \/ \E json \in RuleRequests, storageFails \in BOOLEAN : Connect(json, storageFails)
    \/ \E json \in OtherRequests, storageFails \in BOOLEAN : Connect(json, storageFails)
    \/ \E arrived \in 1..MaxPieces : handleClientReadyRead(arrived)

SpecApi == InitApi /\ [][NextApi]_vars

\* A request has been handled: what was read, and what was written back
Handled == Connected /\ callValue.written # << >>
HandledWhole == Handled /\ parse(callValue.payload) = callArgs[2]
Response == callValue.written[1]
IsError(response) == "error" \in DOMAIN response
\* The handled payload is an object with a method name and object params
WellFormed ==
    /\ HandledWhole /\ callArgs[2].type = "object"
    /\ "method" \in DOMAIN callArgs[2].value
    /\ callArgs[2].value["method"].type = "string"
    /\ "params" \in DOMAIN callArgs[2].value => callArgs[2].value["params"].type = "object"
MethodOf == callArgs[2].value["method"].value
ParamsOf ==
    IF "params" \in DOMAIN callArgs[2].value THEN callArgs[2].value["params"].value
    ELSE << >>

\* C21: the answer to a request with a method name is the error 'Unknown
\* method', with the request's id, exactly when the name is not one of the
\* thirteen protocol methods.
C21_UnknownMethodExactlyForOthers ==
    WellFormed =>
        /\ (IsError(Response) /\ Response.error = "Unknown method")
               <=> MethodOf \notin ProtocolMethods
        /\ MethodOf \notin ProtocolMethods => Response.id = 7

TimestampKeys == IF MethodOf \in SinceMethods THEN {"since"} ELSE {"from", "to"}
\* The param is there, is a string, and its text is a timestamp
IsTimestamp(key) ==
    /\ key \in DOMAIN ParamsOf
    /\ ParamsOf[key].type = "string"
    /\ ParamsOf[key].value >= IsoEpoch
InvalidTimestampErrors == {"Invalid since timestamp", "Invalid from/to timestamp"}

\* C22: for a method that takes a timestamp, a missing or unparsable timestamp
\* is answered with an error, and a request whose timestamps are all
\* well-formed ISO-8601 UTC texts is not refused as an invalid timestamp.
C22_TimestampsCheckedAndAccepted ==
    (WellFormed /\ MethodOf \in SinceMethods \cup BetweenMethods) =>
        /\ (\E key \in TimestampKeys : ~IsTimestamp(key)) => IsError(Response)
        /\ (\A key \in TimestampKeys : IsTimestamp(key)) =>
               ~(IsError(Response) /\ Response.error \in InvalidTimestampErrors)

\* The integer id of the payload that was handled, -1 when it has none
RequestId ==
    LET parsed == parse(callValue.payload)
    IN IF /\ parsed.type = "object" /\ "id" \in DOMAIN parsed.value
          /\ parsed.value["id"].type = "integer"
       THEN parsed.value["id"] ELSE JsonInteger(-1)
\* One response, with result or error and not both, and the socket closed
OneResponse ==
    /\ Len(callValue.written) = 1
    /\ IsError(Response) # ("result" \in DOMAIN Response)
    /\ "id" \in DOMAIN Response
    /\ ~callValue.open
\* Invalid JSON, a missing method, params that are no object, a failing store
MustFail ==
    LET parsed == parse(callValue.payload)
    IN \/ parsed.type # "object"
       \/ "method" \notin DOMAIN parsed.value
       \/ parsed.value["method"].type # "string"
       \/ ("params" \in DOMAIN parsed.value /\ parsed.value["params"].type # "object")
       \/ callArgs[3]

\* C23: for every payload the server writes exactly one response, holding
\* result or error and not both, with the id of the request (-1 when the
\* payload has no integer id), and closes the connection; invalid JSON, a
\* missing method, non-object params and a storage exception give an error.
C23_OneResponseWithRequestId ==
    Handled =>
        /\ OneResponse
        /\ MustFail => IsError(Response)
        /\ RequestId.high = 0 /\ Response.id = RequestId.value

\* C24: a request that is answered with an error, or whose method is neither
\* upsert_watch_rule nor delete_watch_rule, leaves the events, snapshots,
\* meta, watch rules and watch signals as they were.
C24_ReadsAndErrorsKeepStore ==
    [][(Connected /\ callValue.open /\ ~callValue'.open) =>
          ((\/ IsError(callValue'.written[1])
            \/ callArgs[2].value["method"].value
                   \notin {"upsert_watch_rule", "delete_watch_rule"})
               => tableVars' = tableVars)]_vars

C24_Witness ==
    /\ WellFormed /\ MethodOf = "get_changes_since" /\ ~IsError(Response)
    /\ Response.result.events # {}
    /\ callArgs[4].watchRules # {} /\ callArgs[4].snapshots # {}
    /\ watchRules = callArgs[4].watchRules

\* C25: a request that arrives in more than one piece is handled as one
\* request: what is written is what handleRequest writes for the whole
\* request.
C25_SplitRequestHandledAsOne ==
    (Handled /\ ~callValue.open) =>
        callValue.written
            = handleRequest(callArgs[4], Bytes(callArgs[2], 1, MaxPieces), callArgs[3]).written

-----------------------------------------------------------------------------
\* Requests that arrive while the daemon runs its ingestion cycles

ServeRequests ==
    {Request(7, "list_snapshots", << >>), Request(7, "get_changes_since",
                                                  "since" :> JsonString(IsoStart))}

InitServe == InitIngest

NextServe ==
    \/ PacmanParse
    \/ IngestEvent
    \/ PacmanDone
    \/ JournalParse
    \/ JournalDone
    \/ SnapshotCheck
    \/ PersistCursor
    \/ PersistJournal
    \/ AppendLine(LineK)
    \/ \E json \in ServeRequests : Connect(json, FALSE)
    \/ \E arrived \in 1..MaxPieces : handleClientReadyRead(arrived)

SpecServe == InitServe /\ [][NextServe]_vars

\* A request that arrived while a cycle was running and is not answered yet
WaitingSinceCycle == Connected /\ callValue.open /\ callArgs[5]

\* C26: a request that becomes ready while an ingestion cycle is in progress
\* is answered before that cycle ends: no cycle comes to its end with the
\* request that arrived during it still unanswered.
C26_RequestNotDelayedByCycle ==
    [][(WaitingSinceCycle /\ pc # "idle") => pc' # "idle"]_vars

-----------------------------------------------------------------------------
\* A database that is opened, written and read back

\* The two events of the store's deduplication test, and events that come
\* with and without a host id
eventA == [EventAt(360) EXCEPT !.hostId = ""]
eventB == [eventA EXCEPT !.id = <<"event", 361, << >>, << >>>>]
ReadBackEvents ==
    {eventA, eventB, [EventAt(362) EXCEPT !.hostId = "host-2"]}
ReadBackSnapshots ==
    {[SnapshotAt(360) EXCEPT !.hostId = ""], [SnapshotAt(361) EXCEPT !.hostId = "host-2"]}
\* Rows that a version without the host_id column wrote
LegacyEvents == {[eventRow(EventAt(300)) EXCEPT !.host_id = ""]}
LegacySnapshots == {[snapshotRow(SnapshotAt(300)) EXCEPT !.host_id = ""]}

\* The first open of the database
OpenCall ==
    /\ callArgs = << >>
    /\ callArgs' = <<"KhronicleStore", {}>>
    /\ callValue' = <<KhronicleStore({})>>
    /\ UNCHANGED <<fileVars, worldVars, tableVars, daemonVars, historyVars, count>>

\* The store is closed and the database opened again
OpenAgain ==
    /\ callArgs # << >> /\ count.calls < MaxCalls
    /\ callArgs' = <<"KhronicleStore", callValue[1].host_identity>>
    /\ callValue' = <<KhronicleStore(callValue[1].host_identity)>>
    /\ count' = [count EXCEPT !.calls = @ + 1]
    /\ UNCHANGED <<fileVars, worldVars, tableVars, daemonVars, historyVars>>

InitReadBack ==
    /\ InitWorld
    /\ events \in {{}, LegacyEvents}
    /\ snapshots \in {{}, LegacySnapshots}
    /\ meta = << >> /\ watchRules = {} /\ watchSignals = {}
    /\ m_pacmanCursor = NoValue
    /\ m_journalLastTimestamp = defaultJournalStart(now)
    /\ m_lastSnapshot = NoValue
    /\ m_watchEngine = [cache |-> {}, lastReload |-> 0]
    /\ pc = "idle" /\ pending = << >>
    /\ result = [newCursor |-> 0, lastTimestamp |-> 0]
    /\ lastParse = NoParse /\ lastJournal = NoJournal /\ lastEval = NoEval
    /\ lastAdd = NoAdd /\ h_cycle = NoCycle /\ count = NoCount

NextReadBack ==
    \/ OpenCall
    \/ OpenAgain
    \/ \E event \in ReadBackEvents : callArgs # << >> /\ AddEventCall(event)
    \/ \E snapshot \in ReadBackSnapshots : callArgs # << >> /\ AddSnapshotCall(snapshot)

SpecReadBack == InitReadBack /\ [][NextReadBack]_vars

\* C27: two events with different ids and the same timestamp, category and
\* summary are one event to getEventsBetween over a range that holds the
\* timestamp.
C27_EventsDeduplicated ==
    \A a, b \in events :
        (a.timestamp = b.timestamp /\ a.category = b.category /\ a.summary = b.summary) =>
            Cardinality({e \in getEventsBetween(events,
                                   fromEpochSeconds(a.timestamp) - MsPerSecond,
                                   fromEpochSeconds(a.timestamp) + MsPerSecond) :
                            /\ e.timestamp = fromEpochSeconds(a.timestamp)
                            /\ e.category = a.category /\ e.summary = a.summary}) = 1

Opened == callArgs # << >> /\ callArgs[1] = "KhronicleStore"
\* The events and snapshots as the store reads them back
ReadEvents == getEventsSince(events, 0)
ReadSnapshots == listSnapshots(snapshots)

\* C28: the first open generates an identity with a hostId that is not empty
\* and keeps it in the database; a later open returns the identity that is
\* kept.  Every event and snapshot is read back with a hostId that is not
\* empty: the one in its row or, for a row without one, the store's own, and
\* an event or snapshot added without a hostId is stored with the store's own.
C28_HostIdentityStable ==
    /\ Opened =>
           /\ callValue[1].hostIdentity.hostId # ""
           /\ callValue[1].host_identity = {hostIdentityRow(callValue[1].hostIdentity)}
           /\ callArgs[2] # {} => callValue[1].host_identity = callArgs[2]
    /\ Opened =>
           /\ \A row \in events :
                  /\ eventFromRow(row).hostId # ""
                  /\ eventFromRow(row).hostId =
                         IF row.host_id # "" THEN row.host_id
                         ELSE callValue[1].hostIdentity.hostId
           /\ \A row \in snapshots :
                  /\ snapshotFromRow(row).hostId # ""
                  /\ snapshotFromRow(row).hostId =
                         IF row.host_id # "" THEN row.host_id
                         ELSE callValue[1].hostIdentity.hostId
           /\ Cardinality(ReadEvents) = Cardinality(events)
           /\ Cardinality(ReadSnapshots) = Cardinality(snapshots)
           /\ lastAdd.called =>
                  \E read \in ReadEvents \cup ReadSnapshots :
                      /\ read.id = lastAdd.item.id
                      /\ read.hostId = IF lastAdd.item.hostId # "" THEN lastAdd.item.hostId
                                       ELSE callValue[1].hostIdentity.hostId

C28_Witness ==
    /\ Opened /\ callArgs[2] # {}
    /\ callValue[1].hostIdentity.hostId = HostId
    /\ \E row \in events : row.host_id = ""
    /\ \E row \in events : row.host_id = "host-2"
    /\ lastAdd.called /\ lastAdd.item.hostId = ""
    /\ \E read \in ReadSnapshots : read.id = lastAdd.item.id /\ read.hostId = HostId

-----------------------------------------------------------------------------
\* The package log as text

alpmTag == <<" ", "[", "A", "L", "P", "M", "]", " ">>
ops == {installed, upgraded, downgraded}

\* std::string::find(needle, pos): the 0-based position of the first match
\* at or after pos, -1 (npos) when there is none or pos is npos.
find(value, needle, pos) ==
    LET hits == {i \in pos..(Len(value) - Len(needle)) :
                    \A j \in 1..Len(needle) : value[i + j] = needle[j]}
    IN IF pos < 0 \/ hits = {} THEN -1 ELSE CHOOSE i \in hits : \A j \in hits : i <= j

\* std::string::substr(pos, n)
substr(value, pos, n) == SubSeq(value, pos + 1, pos + n)

\* std::get_time on the stamp with 'T' replaced by ' ', for a log whose
\* stamps are "D HH:MM" (day of the epoch, hour, minute): the local time in
\* minutes, -1 when the stream fails.  Text after the minutes is not read.
getTime(raw) ==
    LET normalized == [i \in 1..Len(raw) |-> IF raw[i] = "T" THEN " " ELSE raw[i]]
    IN IF /\ Len(normalized) >= 7
          /\ isDigit(normalized[1]) /\ normalized[2] = " "
          /\ isDigit(normalized[3]) /\ isDigit(normalized[4]) /\ normalized[5] = ":"
          /\ isDigit(normalized[6]) /\ isDigit(normalized[7])
          /\ digitValue(normalized[3]) * 10 + digitValue(normalized[4]) < 24
          /\ digitValue(normalized[6]) * 10 + digitValue(normalized[7]) < 60
       THEN digitValue(normalized[1]) * MinutesPerDay
            + (digitValue(normalized[3]) * 10 + digitValue(normalized[4])) * 60
            + digitValue(normalized[6]) * 10 + digitValue(normalized[7])
       ELSE -1

\* Seeded fault: the operation is not compared with the three operations.
parseLineText_anyOperation(line) ==
    LET tsEnd == find(line, <<"]">>, 0)
        alpmPos == find(line, alpmTag, tsEnd)
        opStart == alpmPos + Len(alpmTag)
        opEnd == find(line, sp, opStart)
        pkgStart == opEnd + 1
        pkgEnd == find(line, sp, pkgStart)
        openParen == find(line, <<"(">>, pkgEnd)
        closeParen == find(line, <<")">>, openParen)
    IN IF line = << >> \/ line[1] # "[" THEN NoValue
       ELSE IF tsEnd = -1 \/ alpmPos = -1 \/ opEnd = -1 \/ pkgEnd = -1 THEN NoValue
       ELSE IF openParen = -1 \/ closeParen = -1 \/ closeParen <= openParen + 1
       THEN NoValue
       ELSE Some([timestamp |-> substr(line, 1, tsEnd - 1),
                  operation |-> substr(line, opStart, opEnd - opStart),
                  packageName |-> substr(line, pkgStart, pkgEnd - pkgStart),
                  versionInfo |-> substr(line, openParen + 1, closeParen - openParen - 1)])

\* parseLine on the characters of a line
parseLineText(line) ==
    LET tsEnd == find(line, <<"]">>, 0)
        alpmPos == find(line, alpmTag, tsEnd)
        opStart == alpmPos + Len(alpmTag)
        opEnd == find(line, sp, opStart)
        operation == substr(line, opStart, opEnd - opStart)
        pkgStart == opEnd + 1
        pkgEnd == find(line, sp, pkgStart)
        openParen == find(line, <<"(">>, pkgEnd)
        closeParen == find(line, <<")">>, openParen)
    IN IF line = << >> \/ line[1] # "[" THEN NoValue
       ELSE IF tsEnd = -1 THEN NoValue
       ELSE IF alpmPos = -1 THEN NoValue
       ELSE IF opEnd = -1 THEN NoValue
       ELSE IF operation \notin ops THEN NoValue
       ELSE IF pkgEnd = -1 THEN NoValue
       ELSE IF openParen = -1 \/ closeParen = -1 \/ closeParen <= openParen + 1
       THEN NoValue
       ELSE Some([timestamp |-> substr(line, 1, tsEnd - 1),
                  operation |-> operation,
                  packageName |-> substr(line, pkgStart, pkgEnd - pkgStart),
                  versionInfo |-> substr(line, openParen + 1, closeParen - openParen - 1)])

\* The getline loop over the lines of a file that is shorter than the byte
\* cap of a run, read from its start: the events it pushes.
RECURSIVE readText(_)
readText(lines) ==
    IF lines = << >> THEN << >>
    ELSE LET line == Head(lines)
             parsed == parseLineText(line)
             timestamp == IF parsed = NoValue THEN NoValue
                          ELSE parseTimestamp(getTime(parsed[1].timestamp))
         IN IF parsed = NoValue THEN readText(Tail(lines))
            ELSE IF ~isInterestingPackage(parsed[1].packageName) THEN readText(Tail(lines))
            ELSE IF timestamp = NoValue THEN readText(Tail(lines))
            ELSE <<pacmanEvent(line, parsed[1], timestamp[1])>> \o readText(Tail(lines))

\* The lines: "[stamp]", a tag, an operation, a package and the versions in
\* parentheses, with and without text that the format has no place for.
TextStamps == {<<"1", "T", "0", "3", ":", "0", "0">>, <<"1", " ", "0", "5", ":", "0", "0">>,
               <<"x", "x">>}
TextStarts == {<< >>, <<"x">>}
TextTags == {alpmTag, <<" ", "[", "P", "A", "C", "M", "A", "N", "]", " ">>,
             <<" ", "[", "P", "A", "C", "M", "A", "N", "]", " ", "x">> \o alpmTag}
TextOps == ops \cup {<<"r", "e", "m", "o", "v", "e", "d">>}
TextPackages == {linux, mesa, ucode, vim}
TextGaps == {sp, <<" ", "x", " ">>}
TextVersions == {ver1 \o arrow \o ver2, ver2, << >>, <<" ", "-", ">", " ">> \o ver2,
                 ver1 \o <<" ", "-", ">", " ">>}
TextLine(start, stamp, tag, op, pkg, gap, versions) ==
    start \o <<"[">> \o stamp \o <<"]">> \o tag \o op \o sp \o pkg \o gap
    \o <<"(">> \o versions \o <<")">>
TextLines ==
    {TextLine(start, stamp, tag, op, pkg, gap, versions) :
        start \in TextStarts, stamp \in TextStamps, tag \in TextTags, op \in TextOps,
        pkg \in TextPackages, gap \in TextGaps, versions \in TextVersions}
PlainLine(stamp, tag, op, pkg) ==
    TextLine(<< >>, stamp, tag, op, pkg, sp, ver1 \o arrow \o ver2)
PlainLines ==
    {PlainLine(stamp, tag, op, pkg) :
        stamp \in TextStamps, tag \in {alpmTag, <<" ", "[", "P", "A", "C", "M", "A", "N", "]", " ">>},
        op \in {upgraded}, pkg \in {linux, vim}}
TextFiles == {<<line>> : line \in TextLines} \cup (PlainLines \X PlainLines)

ParseTextCall ==
    /\ callArgs # << >> /\ callValue = << >>
    /\ callValue' = <<readText(callArgs[2])>>
    /\ UNCHANGED <<callArgs, fileVars, worldVars, tableVars, daemonVars, historyVars, count>>

InitText ==
    /\ log = << >> /\ logOpens = TRUE /\ h_read = 0 /\ h_fresh = FALSE
    /\ journal = << >> /\ journalRuns = TRUE
    /\ kernel = ver1 /\ now = StartTime
    /\ InitDaemon
    /\ \E lines \in TextFiles : callArgs = <<"parsePacmanLog", lines>>
    /\ callValue = << >>

NextText == ParseTextCall

SpecText == InitText /\ [][NextText]_vars

ParsedText == callArgs # << >> /\ callArgs[1] = "parsePacmanLog" /\ callValue # << >>

\* The form "[timestamp] [ALPM] <op> <package> (<versions>)": the fields of
\* a line that has it, NoValue for a line that does not.
FormOf(line) ==
    LET tsEnd == find(line, <<"]">>, 0)
        afterTag == SubSeq(line, tsEnd + 2 + Len(alpmTag), Len(line))
        opLen == find(afterTag, sp, 0)
        afterOp == SubSeq(afterTag, opLen + 2, Len(afterTag))
        pkgLen == find(afterOp, sp, 0)
        inParens == SubSeq(afterOp, pkgLen + 2, Len(afterOp))
    IN IF /\ line # << >> /\ line[1] = "[" /\ tsEnd > 0
          /\ SubSeq(line, tsEnd + 2, tsEnd + 1 + Len(alpmTag)) = alpmTag
          /\ opLen > 0 /\ pkgLen > 0
          /\ Len(inParens) > 2 /\ inParens[1] = "("
          /\ find(inParens, <<")">>, 0) = Len(inParens) - 1
       THEN Some([timestamp |-> SubSeq(line, 2, tsEnd),
                  operation |-> SubSeq(afterTag, 1, opLen),
                  packageName |-> SubSeq(afterOp, 1, pkgLen),
                  versionInfo |-> SubSeq(inParens, 2, Len(inParens) - 1)])
       ELSE NoValue

\* A line of that form with one of the three operations, a package on the
\* allow-list and a stamp that parses
Matches(line) ==
    /\ FormOf(line) # NoValue
    /\ FormOf(line)[1].operation \in ops
    /\ isInterestingPackage(FormOf(line)[1].packageName)
    /\ getTime(FormOf(line)[1].timestamp) >= 0

OneLine == ParsedText /\ Len(callArgs[2]) = 1
Emitted == callValue[1]
TableCategory(packageName) ==
    \/ (packageName \in {linux} /\ categoryForPackage(packageName) = "Kernel")
    \/ (packageName \in {mesa, nvidia} /\ categoryForPackage(packageName) = "GpuDriver")
    \/ (packageName \in {ucode} /\ categoryForPackage(packageName) = "Firmware")
\* state.value("version", "")
VersionOf(state) == IF "version" \in DOMAIN state THEN state["version"] ELSE << >>
Contains(line, part) == find(line, part, 0) >= 0

\* C29 as stated: a line yields an event exactly when it has the form with
\* one of the three operations, an allow-listed package and a stamp that
\* parses; the event has source Pacman, the package as its only related
\* package, the category of the package table, the new version as
\* afterState.version and, for upgraded and downgraded, the old version as
\* beforeState.version (a version that the line does not give reads as the
\* empty text).
C29_EventIffLineHasForm ==
    OneLine =>
        LET line == callArgs[2][1]
        IN /\ Len(Emitted) = 1 <=> Matches(line)
           /\ Len(Emitted) <= 1
           /\ Len(Emitted) = 1 /\ Matches(line) =>
                  LET event == Emitted[1]
                      form == FormOf(line)[1]
                  IN /\ event.source = "Pacman"
                     /\ event.relatedPackages = <<form.packageName>>
                     /\ TableCategory(form.packageName)
                     /\ event.category = categoryForPackage(form.packageName)
                     /\ VersionOf(event.afterState) = splitVersions(form)[2]
                     /\ form.operation # installed =>
                            VersionOf(event.beforeState) = splitVersions(form)[1]

\* C29, amended: a line of the form with one of the three operations, an
\* allow-listed package and a stamp that parses yields one event.  A line
\* yields an event only if it begins with "[", the text up to its first "]"
\* parses as a stamp, and it holds " [ALPM] <op> <package> " with one of the
\* three operations and an allow-listed package, and a "(" and a ")" after
\* it.  The event has source Pacman, that package as its only related
\* package and the category of the package table; afterState.version and
\* beforeState.version are the new and the old version where the text in
\* the parentheses gives one, and are absent where it gives none.  The
\* events of a file are those of its lines, in the order of the lines.
C29_EventForLineOfFormAndOnlyNearForm ==
    /\ OneLine =>
        LET line == callArgs[2][1]
        IN /\ Matches(line) => Len(Emitted) = 1
           /\ Len(Emitted) <= 1
           /\ Len(Emitted) = 1 =>
                  LET event == Emitted[1]
                  IN /\ line[1] = "["
                     /\ getTime(SubSeq(line, 2, find(line, <<"]">>, 0))) >= 0
                     /\ event.timestamp
                            = getTime(SubSeq(line, 2, find(line, <<"]">>, 0))) * MsPerMinute
                     /\ \E op \in ops, pkg \in {linux, mesa, nvidia, ucode} :
                            /\ Contains(line, alpmTag \o op \o sp \o pkg \o sp)
                            /\ event.relatedPackages = <<pkg>>
                            /\ TableCategory(pkg)
                            /\ event.category = categoryForPackage(pkg)
                            /\ find(line, <<")">>, find(line, <<"(">>,
                                   find(line, alpmTag \o op \o sp \o pkg \o sp, 0))) >= 0
                     /\ event.source = "Pacman"
                     /\ event.details = line
                     /\ \A state \in {event.beforeState, event.afterState} :
                            "version" \in DOMAIN state => state["version"] # << >>
                     /\ Matches(line) =>
                            LET versions == splitVersions(FormOf(line)[1])
                            IN /\ event.afterState
                                      = IF versions[2] # << >> THEN ("version" :> versions[2])
                                        ELSE << >>
                               /\ event.beforeState
                                      = IF versions[1] # << >> THEN ("version" :> versions[1])
                                        ELSE << >>
                               /\ FormOf(line)[1].operation = installed =>
                                      event.beforeState = << >>
    /\ ParsedText =>
           [i \in 1..Len(Emitted) |-> Emitted[i].details]
               = SelectSeq(callArgs[2], LAMBDA line : readText(<<line>>) # << >>)

\* A line with text between the package and the parentheses has given an
\* event, and so has the second line of a file whose first line is skipped.
C29_Witness ==
    /\ ParsedText /\ Len(callArgs[2]) = 2
    /\ ~Matches(callArgs[2][1]) /\ Matches(callArgs[2][2])
    /\ Len(Emitted) = 1 /\ Emitted[1].category = "Kernel"
    /\ Emitted[1].afterState = ("version" :> ver2)
    /\ Emitted[1].beforeState = ("version" :> ver1)

-----------------------------------------------------------------------------
\* The order of the steps of a cycle, on a package log that grows and rotates

NextCycle ==
    \/ PacmanParse
    \/ IngestEvent
    \/ PacmanDone
    \/ JournalParse
    \/ JournalDone
    \/ SnapshotCheck
    \/ PersistCursor
    \/ PersistJournal
    \/ Restart
    \/ AppendLine(LineK)
    \/ RotateLog(LineG)

SpecCycle == InitIngest /\ [][NextCycle]_vars

\* runIngestionCycle's statements in their order; a new process starts idle.
CycleOrder ==
    {<<"idle", "pacman">>, <<"pacman", "journalStart">>, <<"journalStart", "journal">>,
     <<"journal", "snapshot">>, <<"snapshot", "persist">>,
     <<"persist", "persistJournal">>, <<"persistJournal", "idle">>}

\* The steps of a cycle follow one another in order, a cycle begins only
\* when none is running, and meta is written only after the loops over the
\* parsed events have run to their ends.
CycleStepsInOrder ==
    /\ pc' # pc => (<<pc, pc'>> \in CycleOrder \/ count'.restarts # count.restarts)
    /\ count'.cycles # count.cycles => pc = "idle"
    /\ meta' # meta =>
           /\ pc \in {"persist", "persistJournal"} /\ pending = << >>
           /\ \A i \in 1..Len(lastParse.events) :
                  \E row \in events : eventFromRow(row).id = lastParse.events[i].id
           /\ \A i \in 1..Len(lastJournal.events) :
                  \E row \in events : eventFromRow(row).id = lastJournal.events[i].id

\* Every matching line that ends at or before the persisted cursor has its
\* event in the store.
CursorBehindStore ==
    LET cursor == getMeta(meta, "pacman_last_cursor")
        behind == IF cursor = NoValue THEN << >>
                  ELSE eventsFrom(linesUpTo(log, cursor[1]), NoValue)
    IN \A i \in 1..Len(behind) : \E row \in events : eventFromRow(row).id = behind[i].id

\* The cycle has written its cursor to meta and the file has not changed
\* since the cycle's parse.
CursorWritten == h_fresh /\ pc \in {"persistJournal", "idle"}

\* C31: a cycle runs package ingestion, journal ingestion, snapshot check
\* and meta persistence in that order, cycles do not overlap, meta is written
\* only after the cycle's events are stored, and so the cursor that a cycle
\* has persisted points past no matching line whose event is not stored.
C31_CycleOrderedAndCursorBehindStore ==
    /\ [][CycleStepsInOrder]_vars
    /\ [](CursorWritten => CursorBehindStore)

-----------------------------------------------------------------------------
\* Watch rules that clients upsert, delete and list

\* A signal of the kernel rule, stored before the requests
StoredSignal ==
    signalRow([id |-> <<0, RuleKernel.id>>, timestamp |-> StartTime,
               ruleId |-> RuleKernel.id, ruleName |-> RuleKernel.name,
               severity |-> RuleKernel.severity, originType |-> "event",
               originId |-> EventAt(360).id,
               message |-> <<RuleKernel.name, "matched event", RuleKernel.categoryEquals>>])

\* handleRequest on the whole text of one request, after the requests that
\* the call variable lists with their responses.
RuleRequest(json, storageFails) ==
    /\ callArgs # << >> /\ Len(callArgs[2]) < MaxRuleOps
    /\ LET reply == handleRequest(ApiStore, Bytes(json, 1, MaxPieces), storageFails)
       IN /\ watchRules' = reply.watchRules
          /\ callValue' = <<reply.written[1], watchSignals>>
          /\ callArgs' = <<"handleRequest",
                           Append(callArgs[2], [request |-> json,
                                                response |-> reply.written[1]])>>
    /\ UNCHANGED <<fileVars, worldVars, events, snapshots, meta, watchSignals,
                   daemonVars, historyVars, count>>

InitRules ==
    /\ log = << >> /\ logOpens = TRUE /\ h_read = 0 /\ h_fresh = FALSE
    /\ journal = << >> /\ journalRuns = TRUE
    /\ kernel = ver1 /\ now = StartTime
    /\ events = {} /\ snapshots = {} /\ meta = << >>
    /\ watchRules = {} /\ watchSignals = {StoredSignal}
    /\ m_pacmanCursor = NoValue
    /\ m_journalLastTimestamp = defaultJournalStart(now)
    /\ m_lastSnapshot = NoValue
    /\ m_watchEngine = [cache |-> {}, lastReload |-> 0]
    /\ pc = "idle" /\ pending = << >>
    /\ result = [newCursor |-> 0, lastTimestamp |-> 0]
    /\ lastParse = NoParse /\ lastJournal = NoJournal /\ lastEval = NoEval
    /\ lastAdd = NoAdd /\ h_cycle = NoCycle /\ count = NoCount
    /\ callArgs = <<"handleRequest", << >>>> /\ callValue = << >>

NextRules ==
    \E json \in RuleRequests, storageFails \in BOOLEAN : RuleRequest(json, storageFails)

SpecRules == InitRules /\ [][NextRules]_vars

RuleLog == callArgs[2]
Answered(i) == "result" \in DOMAIN RuleLog[i].response
MethodAt(i) == RuleLog[i].request.value["method"].value
ParamsAt(i) == RuleLog[i].request.value["params"].value
\* The id that the i-th request upserted or deleted, "" if it did neither
TouchedId(i) ==
    IF ~Answered(i) THEN ""
    ELSE IF MethodAt(i) = "upsert_watch_rule" THEN ParamsAt(i)["rule"].value.id
    ELSE IF MethodAt(i) = "delete_watch_rule" THEN ParamsAt(i)["id"].value
    ELSE ""
\* The last request before the n-th that touched an id, 0 if none did
LastTouch(ruleId, n) ==
    LET touches == {i \in 1..(n - 1) : TouchedId(i) = ruleId}
    IN IF touches = {} THEN 0 ELSE CHOOSE i \in touches : \A j \in touches : j <= i
\* The rules that the claim expects a list_watch_rules to return as the
\* n-th request
ExpectedRules(n) ==
    {ParamsAt(LastTouch(rule.id, n))["rule"].value :
        rule \in {r \in ApiRules : /\ LastTouch(r.id, n) > 0
                                   /\ MethodAt(LastTouch(r.id, n)) = "upsert_watch_rule"}}

NearSnapshots ==
    {[buildCurrentSnapshot(StartTime + m * MsPerMinute, ver1) EXCEPT !.id = snapshotId(m)] :
        m \in {0, 1, 2}}

\* Times a caller asks about: before every snapshot, the second of the first
\* one, a time inside that second, between snapshots, and after every one.
NearTimes ==
    {StartTime - MsPerMinute, StartTime - 500, StartTime - 300,
     StartTime + MsPerMinute + 200, StartTime + 2 * MsPerMinute - 500,
     StartTime + 3 * MsPerMinute}

\* The texts of the times of a request, in seconds
NearTexts == {IsoStart - 60, IsoStart, IsoLater, IsoLast, IsoLast + 60}

GetSnapshotBeforeCall(t) ==
    /\ callArgs' = <<"getSnapshotBefore", t, snapshots>>
    /\ callValue' = <<getSnapshotBefore(snapshots, t)>>
    /\ UNCHANGED <<fileVars, worldVars, tableVars, daemonVars, historyVars, count>>

GetSnapshotAfterCall(t) ==
    /\ callArgs' = <<"getSnapshotAfter", t, snapshots>>
    /\ callValue' = <<getSnapshotAfter(snapshots, t)>>
    /\ UNCHANGED <<fileVars, worldVars, tableVars, daemonVars, historyVars, count>>

\* An explain_change_between request with the texts of two times
ExplainBetweenRequest(from, to) ==
    LET json == Request(7, "explain_change_between",
                        ("from" :> JsonString(from)) @@ ("to" :> JsonString(to)))
        reply == handleRequest(ApiStore, Bytes(json, 1, MaxPieces), FALSE)
    IN /\ callArgs' = <<"explain_change_between", fromIso8601Utc(from),
                        fromIso8601Utc(to), snapshots>>
       /\ callValue' = <<reply.written[1]>>
       /\ UNCHANGED <<fileVars, worldVars, tableVars, daemonVars, historyVars, count>>

InitNearest == InitWorld /\ InitDaemon

NextNearest ==
    \/ \E snapshot \in NearSnapshots : AddSnapshotCall(snapshot)
    \/ \E t \in NearTimes : GetSnapshotBeforeCall(t)
    \/ \E t \in NearTimes : GetSnapshotAfterCall(t)
    \/ \E from, to \in NearTexts : ExplainBetweenRequest(from, to)

SpecNearest == InitNearest /\ [][NextNearest]_vars

BeforeAsked == callArgs # << >> /\ callArgs[1] = "getSnapshotBefore"
AfterAsked == callArgs # << >> /\ callArgs[1] = "getSnapshotAfter"
BetweenAsked == callArgs # << >> /\ callArgs[1] = "explain_change_between"

\* s is, of the listed snapshots, one with the greatest timestamp <= t, read
\* in units of the given number of milliseconds
IsGreatestBefore(s, listed, t, unit) ==
    /\ s \in listed
    /\ s.timestamp \div unit <= t \div unit
    /\ \A other \in listed :
           other.timestamp \div unit <= t \div unit
               => other.timestamp \div unit <= s.timestamp \div unit

IsLeastAfter(s, listed, t, unit) ==
    /\ s \in listed
    /\ s.timestamp \div unit >= t \div unit
    /\ \A other \in listed :
           other.timestamp \div unit >= t \div unit
               => other.timestamp \div unit >= s.timestamp \div unit

NearestAt(unit) ==
    /\ BeforeAsked =>
           LET listed == listSnapshots(callArgs[3])
               found == callValue[1]
           IN IF \E s \in listed : s.timestamp \div unit <= callArgs[2] \div unit
              THEN found # NoValue /\ IsGreatestBefore(found[1], listed, callArgs[2], unit)
              ELSE found = NoValue
    /\ AfterAsked =>
           LET listed == listSnapshots(callArgs[3])
               found == callValue[1]
           IN IF \E s \in listed : s.timestamp \div unit >= callArgs[2] \div unit
              THEN found # NoValue /\ IsLeastAfter(found[1], listed, callArgs[2], unit)
              ELSE found = NoValue
    /\ BetweenAsked =>
           LET listed == listSnapshots(callArgs[4])
               response == callValue[1]
           IN IF /\ \E s \in listed : s.timestamp \div unit <= callArgs[2] \div unit
                 /\ \E s \in listed : s.timestamp \div unit >= callArgs[3] \div unit
              THEN /\ "result" \in DOMAIN response
                   /\ \E a, b \in listed :
                          /\ IsGreatestBefore(a, listed, callArgs[2], unit)
                          /\ IsLeastAfter(b, listed, callArgs[3], unit)
                          /\ response.result.baselineSnapshot = a.id
                          /\ response.result.comparisonSnapshot = b.id
              ELSE response = makeErrorResponse("Snapshots not found", 7)

\* C33 as stated: getSnapshotBefore(t) is the stored snapshot with the greatest
\* timestamp <= t, getSnapshotAfter(t) the one with the least timestamp >= t,
\* none when there is no such snapshot; explain_change_between takes the first
\* of from as baseline and the second of to as comparison and answers
\* "Snapshots not found" when either is missing.
C33_NearestSnapshots == NearestAt(1)

\* C33 amended: the same, with the timestamps and t compared in whole seconds
\* (as the store keeps and binds them).
C33_NearestSnapshotsInWholeSeconds == NearestAt(MsPerSecond)

C33_Witness ==
    /\ AfterAsked
    /\ callArgs[2] = StartTime - 300
    /\ Cardinality(callArgs[3]) = 2
    /\ callValue[1] # NoValue
    /\ callValue[1][1].id = snapshotId(0)

\* ---------------------------------------------------------------------------
\* The fields of a diff, on snapshots that differ in each of them
\* ---------------------------------------------------------------------------

fwVersion(version) == "fwupd" :> version

FieldContents ==
    {[kernelVersion |-> ver1, gpuDriver |-> << >>, firmwareVersions |-> << >>,
      keyPackages |-> installedPackages],
     [kernelVersion |-> ver1, gpuDriver |-> << >>, firmwareVersions |-> fwVersion(ver1),
      keyPackages |-> installedPackages],
     [kernelVersion |-> ver2, gpuDriver |-> ("name" :> mesa),
      firmwareVersions |-> fwVersion(ver2),
      keyPackages |-> ("linux" :> ver1) @@ ("vim" :> ver1)],
     [kernelVersion |-> ver1, gpuDriver |-> ("name" :> amdgpu),
      firmwareVersions |-> fwVersion(ver1), keyPackages |-> ("vim" :> << >>)],
     [kernelVersion |-> ver2, gpuDriver |-> << >>, firmwareVersions |-> << >>,
      keyPackages |-> << >>]}

FieldSnapshots ==
    {[id |-> snapshotId(m), timestamp |-> StartTime + m * MsPerMinute,
      kernelVersion |-> c.kernelVersion, gpuDriver |-> c.gpuDriver,
      firmwareVersions |-> c.firmwareVersions, keyPackages |-> c.keyPackages,
      hostId |-> ""] :
        m \in {0, 1}, c \in FieldContents}

InitFields == InitWorld /\ InitDaemon

NextFields ==
    \/ \E snapshot \in FieldSnapshots : AddSnapshotCall(snapshot)
    \/ \E aId, bId \in StoredIds : DiffSnapshotsCall(aId, bId)

SpecFields == InitFields /\ [][NextFields]_vars

StoredSnapshot(id) == snapshotFromRow(CHOOSE row \in callArgs[4] : row.id = id)

\* The paths a diff of a and b is to report
ExpectedPaths(a, b) ==
    (IF a.kernelVersion # b.kernelVersion THEN {"kernelVersion"} ELSE {})
    \cup (IF a.gpuDriver # b.gpuDriver THEN {"gpuDriver"} ELSE {})
    \cup (IF a.firmwareVersions # b.firmwareVersions THEN {"firmwareVersions"} ELSE {})
    \cup {"keyPackages." \o k : k \in
             {k \in DOMAIN a.keyPackages \cup DOMAIN b.keyPackages :
                 \/ k \notin DOMAIN a.keyPackages
                 \/ k \notin DOMAIN b.keyPackages
                 \/ a.keyPackages[k] # b.keyPackages[k]}}

\* The value a side shows under a path: null for a key it does not have
SideValue(s, path) ==
    CASE path = "kernelVersion" -> Some(s.kernelVersion)
      [] path = "gpuDriver" -> Some(s.gpuDriver)
      [] path = "firmwareVersions" -> Some(s.firmwareVersions)
      [] OTHER -> LET k == CHOOSE k \in {"linux", "mesa", "vim"} : path = "keyPackages." \o k
                  IN IF k \in DOMAIN s.keyPackages THEN Some(s.keyPackages[k]) ELSE NoValue

\* C34: for two stored snapshots diffSnapshots reports kernelVersion,
\* gpuDriver and firmwareVersions each exactly when the whole value differs,
\* and keyPackages.<k> for exactly the keys of either side whose values differ
\* or that one side lacks, the lacking side shown as null; each path is
\* reported once with the two sides' values, and the diff of a snapshot with
\* itself has no changed fields.
C34_DiffReportsExactlyTheDifferences ==
    (DiffAsked /\ IsStored(callArgs[2]) /\ IsStored(callArgs[3])) =>
        LET a == StoredSnapshot(callArgs[2])
            b == StoredSnapshot(callArgs[3])
            diff == callValue[1]
        IN /\ Paths(diff) = ExpectedPaths(a, b)
           /\ Len(diff.changedFields) = Cardinality(Paths(diff))
           /\ \A i \in 1..Len(diff.changedFields) :
                  /\ diff.changedFields[i].before = SideValue(a, diff.changedFields[i].path)
                  /\ diff.changedFields[i].after = SideValue(b, diff.changedFields[i].path)
           /\ callArgs[2] = callArgs[3] => diff.changedFields = << >>

C34_Witness ==
    /\ DiffAsked /\ IsStored(callArgs[2]) /\ IsStored(callArgs[3])
    /\ callArgs[2] # callArgs[3]
    /\ Paths(callValue[1]) =
           {"firmwareVersions", "gpuDriver", "keyPackages.linux", "keyPackages.mesa",
            "keyPackages.vim"}
    /\ StoredSnapshot(callArgs[2]).kernelVersion = StoredSnapshot(callArgs[3]).kernelVersion

-----------------------------------------------------------------------------
\* C35: the journal parse returns only events newer than its since argument:
\* each event of a parseJournalSince call has a timestamp later than since,
\* so the entry that set the watermark is not returned by the next cycle.
C35_JournalEventsNewerThanSince ==
    lastJournal.called =>
        \A i \in 1..Len(lastJournal.events) :
            lastJournal.events[i].timestamp > lastJournal.since

-----------------------------------------------------------------------------
\* A file that is read in runs, each stopped by the byte cap or by its end

CapLines == {LineK, LineG, LineB, LineJB}

\* The files of at most MaxLines complete lines
CapFiles == UNION {[1..n -> CapLines] : n \in 0..MaxLines}

\* A caller that chains parsePacmanLog on a file that does not change, and
\* keeps the events of every run (callValue) in the order they came.
ChainedParseCall ==
    /\ callArgs # << >> /\ callArgs[1] = "parsePacmanLog"
    /\ LET parsed == parsePacmanLog(log, logOpens, m_pacmanCursor)
       IN /\ m_pacmanCursor' = Some(parsed.newCursor)
          /\ lastParse' = ParseRecord(m_pacmanCursor, parsed)
          /\ h_read' = IF parsed.hadError THEN h_read ELSE Max(h_read, parsed.newCursor)
          /\ callValue' = callValue \o parsed.events
          /\ callArgs' = <<"parsePacmanLog", callArgs[2] + 1>>
    /\ OffsetOf(m_pacmanCursor) < fileSize(log) \/ ~lastParse.called
    /\ h_fresh' = TRUE
    /\ UNCHANGED <<log, logOpens, worldVars, tableVars, m_journalLastTimestamp,
                   m_lastSnapshot, m_watchEngine, pc, pending, result, lastJournal,
                   lastEval, lastAdd, h_cycle, count>>

InitCapped ==
    /\ log \in CapFiles
    /\ logOpens = TRUE /\ h_read = 0 /\ h_fresh = FALSE
    /\ journal = << >> /\ journalRuns = TRUE
    /\ kernel = ver1 /\ now = StartTime
    /\ InitDaemon
    /\ callArgs = <<"parsePacmanLog", 0>> /\ callValue = << >>

NextCapped == ChainedParseCall

SpecCapped == InitCapped /\ [][NextCapped]_vars

\* What one parse without a byte cap yields of these lines: the event of
\* each matching line, in the order of the lines.
RECURSIVE uncappedEvents(_)
uncappedEvents(lines) ==
    IF lines = << >> THEN << >>
    ELSE LET parsed == parseLine(lines[1])
             matches == /\ parsed # NoValue
                        /\ isInterestingPackage(parsed[1].packageName)
                        /\ parseTimestamp(parsed[1].timestamp) # NoValue
         IN (IF matches
             THEN <<pacmanEvent(lines[1], parsed[1],
                                parseTimestamp(parsed[1].timestamp)[1])>>
             ELSE << >>) \o uncappedEvents(Tail(lines))

\* The lines of the file that lie between two line boundaries
linesBetween(file, from, to) ==
    SubSeq(file, Len(linesUpTo(file, from)) + 1, Len(linesUpTo(file, to)))

Boundaries(file) == {lineEnd(file, i) : i \in 1..Len(file)}

StoppedBeforeEnd == lastParse.called /\ lastParse.capped /\ lastParse.newCursor < lastParse.size

\* C36: when the byte cap stops a parse before the end of the file, the
\* returned cursor is the end of the last line read, a line boundary, and the
\* events of the run are those of the lines up to it; the parses continued
\* from each returned cursor to the end of the file yield together exactly
\* the events of one parse without a cap: the same, in the same order.
C36_CappedRunsYieldAllEvents ==
    /\ StoppedBeforeEnd =>
           /\ lastParse.newCursor \in Boundaries(log)
           /\ lastParse.newCursor > lastParse.startPos
           /\ lastParse.events
                  = uncappedEvents(linesBetween(log, lastParse.startPos, lastParse.newCursor))
    /\ (lastParse.called /\ OffsetOf(m_pacmanCursor) = fileSize(log)) =>
           callValue = uncappedEvents(log)

C36_Witness ==
    /\ lastParse.called /\ OffsetOf(m_pacmanCursor) = fileSize(log)
    /\ callArgs[2] = 2
    /\ lastParse.prevCapped
    /\ lastParse.events # << >>
    /\ Len(callValue) = 2

-----------------------------------------------------------------------------
\* Signals over cycles and restarts, with rules that do not change, on a
\* package log that holds one kernel line and may get a line for mesa

\* An event rule with no predicate: it matches every event
RuleEvery == Rule("r-every", "Event", "Info", TRUE, << >>, << >>, << >>, << >>, << >>)

InitSignals ==
    /\ log = <<LineK>> /\ logOpens = TRUE /\ h_read = 0 /\ h_fresh = FALSE
    /\ journal = << >> /\ journalRuns = TRUE
    /\ kernel = ver1 /\ now = StartTime
    /\ callArgs = << >> /\ callValue = << >>
    /\ events = {} /\ snapshots = {} /\ meta = << >> /\ watchSignals = {}
    /\ watchRules = upsertWatchRule(upsertWatchRule({}, RuleKernel), RuleEvery)
    /\ m_pacmanCursor = NoValue
    /\ m_journalLastTimestamp = defaultJournalStart(now)
    /\ m_lastSnapshot = NoValue
    /\ m_watchEngine = [cache |-> {}, lastReload |-> 0]
    /\ pc = "idle" /\ pending = << >>
    /\ result = [newCursor |-> 0, lastTimestamp |-> 0]
    /\ lastParse = NoParse /\ lastJournal = NoJournal /\ lastEval = NoEval
    /\ lastAdd = NoAdd /\ h_cycle = NoCycle /\ count = NoCount

NextSignals ==
    \/ PacmanParse
    \/ IngestEvent
    \/ PacmanDone
    \/ JournalParse
    \/ JournalDone
    \/ SnapshotCheck
    \/ PersistCursor
    \/ PersistJournal
    \/ Restart
    \/ AppendLine(LineG)
    \/ AppendJournal(EntryFwupd)

SpecSignals == InitSignals /\ [][NextSignals]_vars

\* C37: with rules that do not change, ingesting an event that is already
\* stored adds no further signal: the store never holds two signals of one
\* rule for one origin.
C37_OneSignalPerRuleAndOrigin ==
    \A a, b \in watchSignals :
        (a.rule_id = b.rule_id /\ a.origin_id = b.origin_id) => a = b

-----------------------------------------------------------------------------
\* A package log that is read while its last line is being written

\* The writer's line may reach the file in two writes.  callArgs[2] is the
\* number of bytes of the last line of log that are still to come: none, the
\* newline alone, or the end of the text with it.
MissingBytes == {0, 1, 10}

\* What a reader sees of a line that lacks its last bytes: the whole text when
\* only the newline is missing, else a text that stops before its ")".
cutLine(line, missing) ==
    IF missing = 1 THEN [line EXCEPT !.len = @ - 1]
    ELSE [line EXCEPT !.tag = "partial", !.len = @ - missing]

\* The file as it is on disk
visibleLog ==
    IF callArgs[2] = 0 THEN log
    ELSE SubSeq(log, 1, Len(log) - 1) \o <<cutLine(log[Len(log)], callArgs[2])>>

WriteLine(line, missing) ==
    /\ callArgs[2] = 0
    /\ Len(log) < MaxLines
    /\ log' = Append(log, line)
    /\ callArgs' = <<"write", missing>>
    /\ h_fresh' = FALSE
    /\ UNCHANGED <<logOpens, h_read, worldVars, tableVars, daemonVars, historyVars,
                   count, callValue>>

WriteRest ==
    /\ callArgs[2] > 0
    /\ callArgs' = <<"write", 0>>
    /\ UNCHANGED <<fileVars, worldVars, tableVars, daemonVars, historyVars, count,
                   callValue>>

\* parsePacmanLog on the file as it is, from the cursor the parse before
\* returned; callValue keeps the events of every parse.
ParseVisible ==
    /\ LET parsed == parsePacmanLog(visibleLog, logOpens, m_pacmanCursor)
       IN /\ m_pacmanCursor' = Some(parsed.newCursor)
          /\ callValue' = callValue \o parsed.events
          /\ h_read' = Max(h_read, parsed.newCursor)
    /\ h_fresh' = TRUE
    /\ UNCHANGED <<log, logOpens, worldVars, tableVars, m_journalLastTimestamp,
                   m_lastSnapshot, m_watchEngine, pc, pending, result, historyVars,
                   count, callArgs>>

InitPartial ==
    /\ log = << >> /\ logOpens = TRUE /\ h_read = 0 /\ h_fresh = FALSE
    /\ journal = << >> /\ journalRuns = TRUE
    /\ kernel = ver1 /\ now = StartTime
    /\ InitDaemon
    /\ callArgs = <<"write", 0>> /\ callValue = << >>

NextPartial ==
    \/ \E line \in {LineK, LineG, LineB}, missing \in MissingBytes : WriteLine(line, missing)
    \/ WriteRest
    \/ ParseVisible

SpecPartial == InitPartial /\ [][NextPartial]_vars

\* The file is complete and a parse has read it to its end
ReadToEnd == callArgs[2] = 0 /\ h_fresh /\ OffsetOf(m_pacmanCursor) = fileSize(log)

\* C38: however the writes to the package log and the parses interleave, a
\* parse that sees a line partly written included, every complete matching
\* line is returned as an event by some parse: once the file is complete and
\* read to its end, each of its matching lines has its event among those the
\* parses returned.
C38_NoMatchingLineLost ==
    ReadToEnd =>
        \A i \in 1..Len(log) :
            uncappedEvents(<<log[i]>>) # << >> =>
                \E j \in 1..Len(callValue) :
                    callValue[j].id = uncappedEvents(<<log[i]>>)[1].id

-----------------------------------------------------------------------------
\* Lines of one minute that name the same package and operation

IdLines == {LineK, LineK2, LineG}

InitIds == InitWorld /\ InitDaemon

NextIds ==
    \/ PacmanParse
    \/ IngestEvent
    \/ PacmanDone
    \/ JournalParse
    \/ JournalDone
    \/ SnapshotCheck
    \/ PersistCursor
    \/ PersistJournal
    \/ \E line \in IdLines : AppendLine(line)

SpecIds == InitIds /\ [][NextIds]_vars

IsMatchingLine(line) == uncappedEvents(<<line>>) # << >>
IdOfLine(line) == uncappedEvents(<<line>>)[1].id

\* C39: two distinct matching lines of the package log never get the same
\* event id, so once a cycle has read the file to its end every matching line
\* has a row of its own in the events table.
C39_EachMatchingLineHasItsRow ==
    CaughtUp =>
        /\ \A i, j \in 1..Len(log) :
               (IsMatchingLine(log[i]) /\ IsMatchingLine(log[j]) /\ log[i] # log[j])
                   => IdOfLine(log[i]) # IdOfLine(log[j])
        /\ \A i \in 1..Len(log) :
               IsMatchingLine(log[i]) => \E row \in events : row.details = log[i]

-----------------------------------------------------------------------------
\* KhronicleApiClient and the server on one local socket

\* callValue holds the client and its connection: the state of the client's
\* socket, m_nextRequestId, m_pending (the ids), the requests written and not
\* yet read by the server, whether the server's end is open, and the
\* responses written and not yet read by the client.  callArgs[2] is the
\* number of requests written so far.
NewClient ==
    [state |-> "Unconnected", m_nextRequestId |-> 1, m_pending |-> {},
     toServer |-> << >>, serverOpen |-> FALSE, toClient |-> << >>]

\* What the UI asks for: loadSnapshots, loadChangesSince, loadSummarySince
ClientCalls ==
    {[method |-> "list_snapshots", params |-> << >>],
     [method |-> "get_changes_since", params |-> "since" :> JsonString(IsoStart)],
     [method |-> "summary_since", params |-> "since" :> JsonString(IsoStart)]}

\* connectToDaemon on a socket that is not connected; the server accepts
\* (handleNewConnection) and onSocketConnected runs.
connectToDaemon(client) ==
    IF client.state = "Connected" THEN client
    ELSE [client EXCEPT !.state = "Connected", !.serverOpen = TRUE,
                        !.toServer = << >>, !.toClient = << >>]

ConnectToDaemon ==
    /\ callValue.state # "Connected"
    /\ callValue' = connectToDaemon(callValue)
    /\ UNCHANGED <<callArgs, fileVars, worldVars, tableVars, daemonVars, historyVars,
                   count>>

\* sendRequest: without a connection it connects and gives up; else it writes
\* the request and a newline and enters the id in m_pending.  What is written
\* to a socket whose other end is closed goes nowhere.
sendRequest(client, method, params) ==
    IF client.state # "Connected" THEN connectToDaemon(client)
    ELSE LET id == client.m_nextRequestId
             root == Request(id, method, params)
         IN [client EXCEPT !.m_nextRequestId = id + 1,
                           !.toServer = IF client.serverOpen THEN Append(@, root) ELSE @,
                           !.m_pending = @ \cup {id}]

SendRequest(method, params) ==
    /\ callValue.m_nextRequestId <= MaxCalls
    /\ callValue' = sendRequest(callValue, method, params)
    /\ callArgs' = <<"client", callArgs[2]
                                 + (IF callValue.state = "Connected" THEN 1 ELSE 0)>>
    /\ UNCHANGED <<fileVars, worldVars, tableVars, daemonVars, historyVars, count>>

\* socket->readAll() on the server: the requests that have arrived, one after
\* the other with their newlines.  One request is the text of a JSON value;
\* two or more are not.
readAll(requests) ==
    IF Len(requests) = 1 THEN Bytes(requests[1], 1, MaxPieces)
    ELSE Bytes(Discarded, 1, MaxPieces)

\* handleClientReadyRead on the client's connection
ServerReadyRead(arrived) ==
    /\ pc = "idle"
    /\ callValue.serverOpen
    /\ arrived >= 1 /\ arrived <= Len(callValue.toServer)
    /\ LET reply == handleRequest(ApiStore, readAll(SubSeq(callValue.toServer, 1, arrived)),
                                  FALSE)
       IN /\ callValue' =
                 [callValue EXCEPT
                     !.toClient = @ \o reply.written,
                     !.serverOpen = ~reply.disconnected,
                     !.toServer = IF reply.disconnected THEN << >>
                                  ELSE SubSeq(@, arrived + 1, Len(@))]
          /\ watchRules' = reply.watchRules
    /\ UNCHANGED <<callArgs, fileVars, worldVars, events, snapshots, meta, watchSignals,
                   daemonVars, historyVars, count>>

\* handleResponse on each response read: an id that is pending is taken out
RECURSIVE handleResponses(_, _)
handleResponses(pendingIds, responses) ==
    IF responses = << >> THEN pendingIds
    ELSE handleResponses(IF responses[1].id \in pendingIds
                         THEN pendingIds \ {responses[1].id} ELSE pendingIds,
                         Tail(responses))

\* onSocketReadyRead
onSocketReadyRead ==
    /\ callValue.state = "Connected"
    /\ callValue.toClient # << >>
    /\ callValue' = [callValue EXCEPT
                        !.m_pending = handleResponses(@, callValue.toClient),
                        !.toClient = << >>]
    /\ UNCHANGED <<callArgs, fileVars, worldVars, tableVars, daemonVars, historyVars,
                   count>>

\* The client's socket learns that the server closed the connection, after
\* it has read what the server wrote.
onSocketError ==
    /\ callValue.state = "Connected"
    /\ ~callValue.serverOpen
    /\ callValue.toClient = << >>
    /\ callValue' = [callValue EXCEPT !.state = "Unconnected"]
    /\ UNCHANGED <<callArgs, fileVars, worldVars, tableVars, daemonVars, historyVars,
                   count>>

InitClient ==
    /\ log = << >> /\ logOpens = TRUE /\ h_read = 0 /\ h_fresh = FALSE
    /\ journal = << >> /\ journalRuns = TRUE
    /\ kernel = ver1 /\ now = StartTime
    /\ InitDaemon
    /\ callArgs = <<"client", 0>> /\ callValue = NewClient

NextClient ==
    \/ ConnectToDaemon
    \/ \E call \in ClientCalls : SendRequest(call.method, call.params)
    \/ \E arrived \in 1..MaxCalls : ServerReadyRead(arrived)
    \/ onSocketReadyRead
    \/ onSocketError

SpecClient == InitClient /\ [][NextClient]_vars

idOf(request) == request.value["id"].value

\* C40: every request the client has written is answered by a response with
\* its id and leaves the pending table: at no time is a pending request
\* neither on its way to a server that will read it nor answered by a response
\* on its way to the client.
C40_EveryRequestAnswered ==
    \A id \in callValue.m_pending :
        \/ /\ callValue.serverOpen
           /\ \E i \in 1..Len(callValue.toServer) : idOf(callValue.toServer[i]) = id
        \/ \E i \in 1..Len(callValue.toClient) : callValue.toClient[i].id = id

=============================================================================
